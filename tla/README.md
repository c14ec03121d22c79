# A TLA+ model of sqlectron-db-core

sqlectron-db-core gives one interface to five database engines. It is single
threaded, but nothing in it is sequential: every operation is a chain of
segments between `await`s, several chains share a `Server`, a `Database`, a
tunnel or a connection pool, and each pause is a place where another chain may
run. These modules model the parts where that matters. Source paths below are
relative to `src/src/` unless they start with `spec/`.

## 1. Inventory

| Component | State it keeps | Operations | What makes it correct |
|---|---|---|---|
| Server registry, `server.ts` | `databases` (by name), `sshTunnel`, `config.localHost/localPort` | `createConnection`, `db`, `removeDatabase`, `end` | `end()` disconnects everything and closes the tunnel; a name stands for one live Database |
| Database connection, `database.ts` | `connecting`, `connection` | `connect`, `disconnect`, `handleSSHError`, `checkIsConnected`, about thirty forwarding operations | one attempt at a time; an operation that passes `checkIsConnected` has an open adapter; no adapter is lost; every attempt settles |
| SSH tunnel, `tunnel.ts` | a `net.Server`, its sockets, one SSH client per socket; events `success`, `error` | `connectTunnel`, `configTunnel`, socket and client callbacks | the tunnel that listens is the one the Server keeps; all sockets and clients end when it closes |
| PostgreSQL adapter, `adapters/postgresql.ts` | `conn.pool`; per query `pid`, `canceling` | `query` with `execute`/`cancel`, catalogue queries, `truncateAllTables` | no connection leaks; a cancel kills the statement it is meant for and settles |
| MySQL adapter, `adapters/mysql.ts` | the same | the same; error recovery through `_getRealError` | the same; a killed connection is replaced |
| SQL Server adapter, `adapters/sqlserver.ts` | `conn.connection`, a pool made on first use; per query the `Request` | `query`, `execute`, `cancel`, catalogue queries, `truncateAllTables` | cancel reaches the request; rows go with their command |
| SQLite adapter, `adapters/sqlite.ts` | one database handle per query | `query`, `execute`, `cancel` by interrupt, `truncateAllTables` | a canceled batch returns nothing; every handle closes |
| Cassandra adapter, `adapters/cassandra.ts` | one client | `executeQuery`, catalogue queries, `truncateAllTables` | every promise settles; success of a truncation means all tables |
| Cancelable promise and utilities, `utils.ts` | `canceled`, `discarded` of one promise; a poll timer | `createCancelablePromise`: `wait`, `cancel`, `discard`; `versionCompare`; file helpers | the race of statement and promise has the right winner |
| Errors, `errors.ts` | none | `CanceledByUserError` | what its message says is true |
| Filters, `filters.ts` | none | `buildSchemaFilter`, `buildDatabaseFilter` | the filter selects what was asked for, and what MySQL's `filterDatabase` selects |
| Adapter registry, `adapters/index.ts` | a constant table | lookup by key | - |
| Abstract adapter, `adapters/abstract_adapter.ts` | none | types, defaults that answer `[]` or raise | an adapter that does not know a thing says so in the same way |
| Logger and entry point, `logger.ts`, `index.ts` | the logger in use | `setLogger`, re-exports | - |

How they interact:

- `Server` and `Database` point to each other. A Database registers by name
  through `createConnection` and takes its own name out of the Server's map
  (`removeDatabase`) whenever it disconnects, a failed `connect()` included.
- `connect()` of any Database creates the tunnel when `server.sshTunnel` is not
  set, and writes `sshTunnel`, `localHost` and `localPort` into the shared
  Server. Every adapter reads these to find its port.
- `handleSSHError()` turns the events of the shared tunnel into a promise that
  `Promise.all` joins with `adapter.connect()`. One event of one socket settles
  that promise for every call that waits on the tunnel.
- `query()` returns an object whose `execute()` and `cancel()` share variables
  and take connections of one pool, and the database server is a third party
  between them: a kill is a statement on another connection.
- The catalogue operations ask a database that others change meanwhile; some put
  their answer together from several statements.

What is hard: check-await-assign sequences (`sshTunnel`),
flags reset by one chain while another relies on them (`connecting`,
`canceling`), events broadcast to all waiters, values used after an `await`
(`pid`, `localPort`), resources on error paths (an adapter still connecting, a
pooled connection with a statement on it), kills racing completions, and
waiting for a resource the awaited job holds, and, in the texts the adapters
send, joins that are weaker than the keys of the catalogue. `PROJECT.json` lists each of these
as a hazard with its line and the properties aimed at it.

## 2. The modules

| Module | Contents |
|---|---|
| `ConnectionContract` | abstract: the life of Database objects as a caller sees it |
| `ServerSession` | detailed: `server.ts`, the connection part of `database.ts`, the tunnel as `connect()` sees it |
| `DatabaseApi` | extends `ServerSession` by the operations of a Database on its connection |
| `TunnelContract` | abstract: one tunnel as a Server sees it |
| `SshTunnel` | detailed: `tunnel.ts`, its listener, sockets, SSH clients and streams |
| `QueryCancel` | detailed: `query()`, `execute()`, `cancel()` of the PostgreSQL and MySQL adapters over their pool |
| `RequestCancel` | detailed: the same of the SQL Server and SQLite adapters, whose driver is told to interrupt a request or a handle |
| `TruncateAll` | detailed: `truncateAllTables()` of the five adapters, with errors and lost connections |
| `Versions` | pure: `versionCompare()`, on which PostgreSQL's way of truncating depends |
| `Results` | `executeQuery()` of the five adapters: how results, identified commands and counts are put together |
| `Catalog` | the catalogue operations and scripts of the five adapters, as relational expressions over a database that changes |
| `Filters` | pure: `filters.ts` and MySQL's `filterDatabase()`, with what a filter asks for |
| `ServerSession_proofs`, `DatabaseApi_proofs`, `SshTunnel_proofs`, `QueryCancel_proofs`, `RequestCancel_proofs`, `TruncateAll_proofs`, `Results_proofs`, `Catalog_proofs` | theorems, see section 4 |
| `MCServerSession`, `MCDatabaseApi`, `MCSshTunnel`, `MCQueryCancel`, `MCRequestCancel`, `MCTruncateAll`, `MCResults`, `MCCatalog` | constants (and symmetry, where it is used) for the runs |

### ServerSession

One action is one segment of JavaScript, from an `await` to the next.

| Action | Code |
|---|---|
| `CreateConnection` | `Server.createConnection`; on a registered name the code returns the existing object, which is a stutter |
| `ConnectRefused`, `Connect` | `Database.connect` up to its first `await`: the guard, `connecting = true`, the disconnect of a previous adapter, and either the call of `connectTunnel` or the new adapter |
| `TunnelOpened`, `TunnelFails` | the segment after `await connectTunnel`, its assignments to the Server, and the catch block |
| `Resolve`, `Reject` | the segment after `await Promise.all`, and the catch block |
| `Disconnect`, `End` | `Database.disconnect`, `Server.end` |
| `Accept`, `Forwarded`, `LegEnds`, `SshError`, `ForwardError` | the callbacks of `tunnel.ts` 26-60 for the socket of one adapter, with the `success` or `error` they emit on the whole tunnel, as `TunnelContract` allows them |
| `DriverOpens`, `DriverFails` | environment: how `adapter.connect()` settles |

A call of `connect()` is an identity that also names the adapter and the tunnel
it creates, so `connection[d] = c` says which call's adapter a Database holds.
`ends[c]` counts `adapter.disconnect()`. `via` is the port an adapter dials,
`watch` the tunnel its `handleSSHError()` listens on, `ssh` that promise, `leg`
the adapter's way through the tunnel. What is abstracted: configuration, the
adapters' own work in `connect()`, sockets after the first one of an adapter
except for the events they emit, and the removal of listeners.

`MayInterrupt` and `MayReuse` describe the caller, not the library. With both,
callers may do everything the API allows. Without the first they await a pending
`connect()` before `disconnect()` or `end()`; without the second they drop a
Database that the Server no longer knows.

`ConnectionContract` is what such careful callers get: a Database goes from
idle to connecting to ready and back to connecting, ends in closed, is the only
one of its name while it lives, and `end()` closes all of them in one step. The
refinement mapping (`DbState`) computes the abstract state from the registry,
`connecting`, `connection` and the state of the adapter. It maps a connection
that is not open to "lost", and a forgotten Database that is still connecting or
connected to "leaked", two values the contract does not know; so the refinement
also says that neither occurs.

### DatabaseApi

The operations of `database.ts` 99-274 are all forwarded to the adapter in
`connection`; they differ in what they check and when. `Refuse` and `Forward`
are the ones that call `checkIsConnected()`; `ForwardUnchecked` is
`truncateAllTables()` and `getTableDeleteScript()`, which do not. `Answer` is the
segment after the adapter's answer; a script looks `connection` up again there, to
quote names, and finds whatever is in it by then. `reached` is the adapter that an
operation was given to. All of `ServerSession` happens in between. Abstracted:
the arguments, the answers, and the adapter's own work (the modules below).

### SshTunnel and TunnelContract

`SshTunnel` has one action per callback of `tunnel.ts`: `Configure` is
`configTunnel()` with its errors, `Listen` the end of the promise, `Accept` the
listener of `net.createServer()` (with a `client.connect()` that throws),
`ClientReady`, `ClientFails`, `ClientEnds`, `ForwardOk`, `ForwardErr`,
`StreamEnds`, `DriverCloses`, `SocketFails` what becomes of a socket, its client
and its stream, `Close` and `Closed` the two halves of `server.close()`: it stops
listening at once and emits `close` when the last socket has gone. A client that
is still in its handshake then is not yet in the list that `close` ends, and
becomes ready later (`ClientReady` has no guard on the server). Abstracted: data,
addresses, the kinds of authentication.

`TunnelContract` is what a Server gets to see: the listener, one leg for each
socket, and how many events it has emitted. Its actions are the ones of
`ServerSession` with the same names, for a single tunnel: an `Accept` that breaks at
once is a `client.connect()` that throws; `Forwarded` may also come for a leg that is
broken, and `SshError` for any leg there is, since a client and its socket fail
independently. `LegsEnd` ends several legs at once, where `ServerSession` ends
them one by one; no event tells the difference. `Leg` and `Listener` are the
refinement mapping. So the chain is: `SshTunnel` implements `TunnelContract`,
`ServerSession` uses a tunnel that behaves like it, and implements
`ConnectionContract` for its callers.

### QueryCancel

Connections stand for their backends and pids. A job is a call of `execute()` or
of `cancel()`. The pool (`Grant`, `GrantFails`) serves waiting jobs in order over
at most `PoolSize` connections; the server (`Begin`, `Serve`, `Kill`) executes
the first statement sent on a connection; the adapter (`ReceivePid`,
`ReceiveRows`, `ReceiveKilled`, `ReceiveError`, `ReceiveOrphan`,
`ConnectionLost`, `Poll`) continues when an answer arrives or a poll of the
cancelable promise finds something. Pool and server are external: they are
modelled from how the adapters use them.

The initial state chooses the adapter from `Adapters`; `KillsConnection` says
what its kill does. PostgreSQL's `pg_cancel_backend` interrupts what the backend
is busy with at that moment, or nothing. MySQL's `KILL` closes the connection,
the adapter learns of it later, and the pool opens another connection. The pid
is read and the statement sent in separate steps, `pid = null` is on the success
path only, `canceling` and `canceled` are never reset by a new `execute()`, and
the connection of a canceled run goes back to the pool although its statement may
still be running: all as in the code. `Reexecute` says whether callers execute
one query object more than once.

What is abstracted: results and the text of statements, the interval of the
poll, the separate promise MySQL uses for the thread id, and the choice among
simultaneous socket events.

### RequestCancel

Here no second connection is needed: `cancel()` tells the driver. For SQL Server
it marks the `Request` of the last `execute()` and asks the driver to cancel it
(`CancelRequest`, refused while there is none); the driver sends an attention
signal (`Attention`), or drops a request that has not been sent. For SQLite it
calls `interrupt()` on the handle of the query (`Interrupt`), which ends the
statement under way and is lost between two statements. `Acquired`, `Opened`,
`OpenFails` are the way to a connection or handle; `Begin`, `StatementEnds`,
`StatementFails`, `Settles`, `Finally`, `Closed` follow a SQLite batch, all of
whose statements are issued at once and whose promises settle in their order;
`RequestEnds` is the end of a SQL Server response with the code that tells a
cancellation from an error. A run is one call of `execute()`.

### TruncateAll and Versions

One call of `truncateAllTables()` of any of the adapters. A statement is a pair
of what it does (`off`, `empty`, `on`) and a table; `Text` is what an adapter
sends, `Ready` in which order it is executed. `ExecuteFails` is where the adapters
differ: PostgreSQL undoes the whole simple query; its older way goes to the
`ROLLBACK` of the catch block; MySQL stops at the error; SQL Server stops or goes
on, as the error wants, and since it empties a table by two statements the table
may be empty when the second one fails; SQLite and Cassandra have sent everything already and
reject while the rest is executed. `CommitFails` stands for constraints that are
checked late, `ConnectionLost` for the loss of the call's connection at any point,
with the server's choice if a commit was under way. `session` says what becomes
of the connection and `unchecked` which foreign keys are switched off.

The way PostgreSQL takes depends on the version the server reported (`version`)
and on `VersionCompare`, translated from `versionCompare()` as a relation on
sequences of numbers in which a part may be `NaN`: the first common part that
differs decides, and a part that is no number is never different. Tables without
foreign keys, sequences, views and quoting are abstracted. The test for a keyspace
that Cassandra's call makes after it has listed the tables (`cassandra.ts` 224) has
no action: without a keyspace the listing has been rejected (`ListFails`).

### Results

A text is a sequence of statements with the count of rows they return or affect.
`Init` takes every text, and the list of types `identifyCommands()` may have
returned for it: all of them, or none if the identifier threw, which a strict
one does when it meets a statement it does not know. `Execute` adds what the
driver receives for a statement (`AnswersTo`; SQLite is asked for the identified
statements only, MySQL procedures answer twice), `Return` turns it into results
as the adapter does (`Parsed`): by position for PostgreSQL, MySQL (after
`isMultipleQuery()` has guessed the shape of the answer) and SQLite, by record
set for SQL Server, a single one for Cassandra. The kinds of statements stand for
what the identifier knows and what comes back; a `CONDITIONAL` is Cassandra's
`INSERT ... IF NOT EXISTS`, which is of type INSERT and returns a row, the one case
in which that adapter has affected rows to report. SQL Server's driver keeps the
answers with columns apart (`recordSets`) and adds up what all statements affected
(`affected`); `Collect` is what it does with an answer, `SetsOrEmpty` the empty
record set that the adapter makes up when rows were affected and none returned. `of` is a history field that
says from which statements a result comes. Abstracted: rows, names of fields, and texts
that hold nothing but comments, which have no statement.

### Catalog and Filters

Users of the database create and drop tables and add constraints (`CreateTable`,
`DropTable`, `AddConstraint`) before, between and during the calls, within what
each engine allows (`MayShareName`). A call is a question. `Ask` answers it from
one state of the database: every operation is the query its adapter sends,
written as a relational expression (a join is a product with a condition), and a
row carries in `from` what it was joined from, so that two rows that look alike
are still two, as they are in a result set. `AskComposed`, `ReadColumns`,
`ReadKey` are the three statements of PostgreSQL's `getTableCreateScript()`,
which see three states. `Take` is the caller. An answer is rows, a rejection, or
nothing ever (`Never`). `Inherited` are the operations that an adapter leaves to
`AbstractAdapter`. The texts of the queries are external in one respect: what the
engine's catalogue contains is modelled from how the query uses it
(`KeyColumnUsage`, `Used`, `ObjectId`).

A filter is modelled in `Filters` twice as the code has it, as conditions of a
`WHERE` and as MySQL's early returns in JavaScript, and once as what it asks for
(`Admits`). `OneForm` is what the types of `filters.ts` say: a name or lists, not
both. What the engines guarantee of names is assumed of the constants
(`ObjectsAssumption`: the parts of one object have different names, a view is
alone with its name in its schema, an overload differs in its parameters,
positions are those the kind of a column has; `CandidatesAssumption`: a constraint
has columns) and kept by the guards of the actions (`MayShareName`: which
constraints may have one name). Abstracted: quoting, data types, defaults and the wording of scripts.

## 3. Runs

Bounds are in the cfg files. Deadlock is not checked (`CHECK_DEADLOCK FALSE`):
every run bounds the number of calls, and callers that have made them all may
stop; that stop is an artefact of the bound and not of the code. What must not
stop is stated as a liveness property instead.

| Run | Question | Bounds |
|---|---|---|
| `session_live` | Whatever callers do: is what `checkIsConnected` lets through open, does each adapter dial the tunnel it watches, does every `connect()` settle? | 2 names, 2 Databases, 2 calls, a tunnel that may fail, all liberties |
| `session_patient` | Do careful callers get the contract, with one attempt per Database and no established adapter out of reach? | 2 names, 3 Databases, 2 calls, tunnel |
| `api` | Without a tunnel: do operations reach an open adapter, do scripts lose theirs only to a disconnect, does a failed `connect()` leave nothing open, and does the contract hold with its liveness? | 2 names, 2 Databases, 3 calls, 1 operation |
| `tunnel` | Does a tunnel do for its Server what `ServerSession` assumes, and does its end release the clients? | 3 sockets, every configuration |
| `cancel` | PostgreSQL and MySQL: no leaked or shared connection, cancellations are honest, an accepted cancel ends the run, a cancel settles | 2 queries, 2 executions (of one or of both), 2 cancels, a pool of 2, up to 4 connections where kills close some |
| `request_cancel` | SQL Server and SQLite: does `cancel()` interrupt what it is made for and nothing else, are partial results kept from the caller, do handles close? | 2 executions of a text of 1 to 3 statements, 2 cancels |
| `truncate` | Five adapters: does success mean clean, is PostgreSQL atomic, which connections go back? | 3 tables, 7 server versions around 8.4 |
| `results` | Five adapters: do results, commands and counts belong together? | every text of up to 3 statements, counts 0 and 2 |
| `catalog` | Five adapters: are lists, columns, keys, references and scripts exact, about the right object, and given at all? | 8 objects in 2 schemas, 8 constraints, every question about them, every filter over 2 names |
| `session_two_tunnels` | violation: is there one tunnel when two Databases connect at once? | 2 Databases, 2 calls |
| `cancel_collateral` | violation: does a kill only hit the query it is meant for? | 2 queries, 1 cancel, a pool of 2 |
| `results_labels` | violation: do SQL Server's rows carry the command of their own statement? | texts of up to 2 statements |

Why the bounds are enough. The conflicts in `ServerSession` are between two
calls of one Database, two Databases of one Server, or a Database and its
successor of the same name; a third call is needed only to have two in conflict
after one that succeeded, which `api` has, and the theorems below repeat the
safety properties for any number of calls. One operation is enough in `api`
because operations do not change what others see. In `tunnel` one socket may come
up while the second breaks, and the third is accepted by a client that becomes
ready after the close; sockets meet in the listener and the list only. In
`QueryCancel` a pool of two has the three interesting cases: a connection to
spare, none to spare, and a job that waits; the second query is the innocent one
that a misdirected kill meets, the second execution of one query meets the flags
of the first, and the second cancel interferes with the first. Four connections
allow MySQL every kill that two cancels can make. In `TruncateAll` the third
table distinguishes before, during and after a failure, and the theorems hold for
any number of tables. Two statements make every mismatch of positions in
`Results`; the third shows that they do not heal. The objects of `catalog` are the
least in which names can be confused: the same table name in two schemas, the
same constraint name on two tables of one schema and in two schemas, a key of
two columns, two versions of one table, overloaded routines, a trigger of two
events, an index of two columns. Symmetry is used in runs of safety properties
only.

The properties in words are in the modules, each next to its definition. The
ones that several chains must cooperate to break:

- `UsableIsOpen`: `connect()` ends the previous adapter at once but leaves it in
  `connection` until the new one is stored. Operations are kept off it by
  `connecting` alone, which `disconnect()`, `end()` and every failing call reset.
- `OperationsReachOpen` says this of the operations themselves, and that the two
  that skip the check may be given an adapter that a second `connect()` has told to
  disconnect; nothing worse. `ScriptsLoseTheirAdapter`: for callers who await a
  pending `connect()`, the second look at `connection` misses it only after a
  `disconnect()`.
- `ResolvedIsOwned`, `OpenIsOwned`: an adapter that has been established is
  reachable, so something can still close it. The second needs that there is no
  tunnel: with one, `Promise.all` can be rejected by the tunnel's error while the
  driver goes on to open.
- `ConnectSettles`: excepts `Stranded`. The first `success` of any socket of the
  tunnel resolves `handleSSHError()` of all the calls that wait. An error of a
  call's own SSH client after that is not seen by anyone, the driver's socket
  stays open, and only the driver's own timeout, if it has one, can end the call.
- `LegsKeepContract`: every accepted socket is heard of, in one event at least, in
  whatever order clients get ready, fail and end. `ClosedReleases`: when the
  listener has drained, clients that are connected by then are ended.
- `PoolConserved`: each connection goes back exactly once on every path, the
  statement of a canceled run notwithstanding.
- `CanceledIsHonest`: `CanceledByUserError` is reported only if a `cancel()` of the
  same query has succeeded and its kill was aimed at the connection of a run of that
  query. If the query is executed twice it may have been the other run: they share
  one `pid` and one promise. `CancelingIsMeant` is about errors that are attributed to
  the user by `canceling`: the flag is up only for a `cancel()` that is under way or
  has succeeded, and while one is under way it is down only if another `cancel()` of
  the query has failed or another run has ended by it.
- `AcceptedEndsRun`, `CancelSettles`: a kill can arrive before the statement it is
  meant for; the poll of the cancelable promise still ends the run. A cancel uses
  a connection of the same pool, so it settles unless statements occupy the pool
  for ever: this exception is part of the property (`Starved`).
- `OutcomesAreMeant`, `NothingAfterCancel`: a run that ends as canceled was asked
  to, rows are returned only if every statement succeeded, and after a cancellation
  has been reported SQL Server executes nothing more of a text of any length, SQLite
  nothing more of a text of one statement.
- `ResolvedIsClean`, `PoolIsClean`: whichever statement fails, success is not
  reported with tables full or foreign keys unchecked. MySQL's connection can go
  back to the pool with its checks off, but only when the caller was told of an
  error.
- `OneResultEach`, `OwnCommands`, `CountsAreTrue`: the exceptions they make (SQL
  Server's texts of mixed statements, MySQL procedures) are where the pairing by
  position goes wrong.
- `ConstraintsAreExact`, `PartsAreItsOwn`, `ScriptIsWhole`: a query finds what
  belongs to the object that was asked about, whole, once, and nothing of its
  namesakes. Where a join is too weak for that, `KeysBlurred`, `ReferencesBlurred`,
  `PartsBlurred` and `ScriptBlurred` say exactly when; outside of them the rows must
  be exact.
- `ExistingIsAnswered`: a question about something that exists is not rejected or
  forgotten, but in the cases of `Fragile`.

### Fairness

`ServerSession`: `listen()` calls back; ssh2 gives up a handshake after its
`readyTimeout` and a server answers `forwardOut()`; a driver that talks to its
server, or that finds the local port closed, gets an answer; a settled promise
resumes its `await`. A driver whose leg has broken is owed nothing, because
`tunnel.ts` does not close the local socket when the SSH client fails.
`DatabaseApi` adds none: nothing is claimed of the end of an operation.
`SshTunnel`: reading the configuration and `listen()` end, a handshake ends (the
same `readyTimeout`), `forwardOut()` calls back, at the latest with an error when
its connection is lost, and Node.js emits `close` for a server that has drained.
Drivers and SSH servers owe nothing: sockets may stay open for ever, so a closed
tunnel need not drain.
`QueryCancel`: the pool serves whoever waits; the server answers the request for
a pid and executes kills; answers are delivered and polls are made (a timer). A
caller's statement may run for ever, so `Serve` is fair for pid requests only.
`RequestCancel`: connections and handles are given or refused, the driver acts
on a cancellation and reads what the server ends with; whether a statement ends
by itself is left open. The other modules state safety only.
All fairness is weak: nothing here is disabled again and again.

### Disagreements between the code and what is said of it

- `database.ts` 63-71 tests `sshTunnel`, awaits, then assigns it. Two Databases
  connecting at once open two tunnels; the first stored one is overwritten and
  nothing can close it (`session_two_tunnels`; the comment at line 62 says
  "reuse existing tunnel").
- `cancel()` reads `pid` and then waits for a connection. By the time of the kill
  the backend may work for another query (`cancel_collateral`;
  `spec/db.spec.ts` 958 says "should be able to cancel the current query").
- SQL Server pairs record sets with the commands of all statements by position,
  but statements without rows have no record set: the rows of a `SELECT` after an
  `INSERT` carry the command `INSERT` (`results_labels`, `adapters/sqlserver.ts`
  518; `spec/db.spec.ts` 31 says "ensure all these adapters has the same API and
  output results").

Met while modelling, without a run of their own. In the session:

- `end()` walks the map, and a Database whose `connect()` failed once is no longer
  in it, so that, connected again, it survives `end()` (`server.ts` 57 says
  "Disconnect all connected databases"; `EndDisconnectsEveryDatabase` therefore
  needs callers who drop such Databases).
- `tunnel.ts` 46-50 closes the listener when `forwardOut()` fails, but
  `Server.sshTunnel` keeps it, so later calls dial a closed port until `end()`.
- SSH clients that get ready after the tunnel's `close` are ended by nobody.

In the adapters:

- A SQLite interrupt between two statements of a batch is lost. After a failing
  `TRUNCATE`, MySQL's connection returns to the pool with foreign key checks off,
  and the next user of it runs without them.
- PostgreSQL's `getTableCreateScript()` fails for a table without a primary key
  and prints one column of a composite key; `getViewCreateScript()` looks the
  view up in the search path whatever schema it is given.
- MySQL appends ` KEY` to the name of every constraint (`mysql.ts` 343-384), and
  finds no script of a routine when its type is spelled in capitals, as
  `listRoutines()` returns it.
- SQL Server's filtered `listDatabases()` puts `AND` after a text without `WHERE`;
  `getTableKeys()` joins all foreign keys of the table with all of its keys;
  `listTableIndexes()` fails for a table without indexes; the scripts do not look
  at the schema, and list the columns of every key that is called like the table's
  primary key, also of tables elsewhere.
- Cassandra's `getTableKeys()` never settles without a keyspace.

Each of these is in the model, and the property next to it names it as its
exception (`KeysBlurred`, `ScriptBlurred`, `Fragile`, ...). The last one of SQL Server was
found by the proof: `ScriptIsWhole` had held in the run as long as no two tables of
different names and schemas had primary keys of one name.

Some properties hold only for callers that keep to a discipline, and their
comments say which: `OneAttemptPerDatabase`, `ResolvedIsOwned` and
`ScriptsLoseTheirAdapter` fail if `disconnect()` is called during `connect()`,
`ContractSpec` if a forgotten Database is connected again. Others permit what the
code does and say where it ends: that SQLite loses an interrupt, that SQL Server
cannot cancel an earlier execution, that MySQL's connection goes back with its checks
off after an error. The notes of the hazards in `PROJECT.json` say for each of these
what the properties next to it do not claim.

## 4. Proofs

The theorems about the session hold for any sets `Keys`, `Dbs`, `Calls` and `Ops`
(with `SessionAssumption`: `None` is none of their elements, the flags are
Booleans), those about cancellation for any set of calls, those about results for
any text, and those about catalogues for any database.

`ServerSession_proofs`, for any use of the library. None of the properties is
inductive alone. `SessionInv` adds what they rest on: the adapter a Database
holds was stored by a resolved call of that very Database (`HoldsItsOwn`); it has
been told to disconnect once if the Database is connecting again and not at all
otherwise (`EndedIffConnecting`); only adapters of resolved calls are ever told
(`EndedWasResolved`). `HoldsItsOwn` is what makes two Databases never share an
adapter, without which a `disconnect()` of one could end the other's. From it
follow `TypeCorrect`, `UsableConnectionIsOpen` and `NeverEndedThrice`;
`DialsAndWatchesTheSame` has an invariant of its own that ties `sshTunnel` to
`localPort`. Two theorems say what is behind a run:

- `OneTunnelInTurn`: in a behaviour in which no two `connect()` calls of the Server
  are ever under way at once (`InTurn`), the tunnel that listens is the one the
  Server keeps, whatever else callers do. So the two tunnels of
  `session_two_tunnels` have no other cause than the pause between the test of
  `sshTunnel` and its assignment. `SoleTunnel` adds to the property that a call
  that waits for its tunnel has found none.
- `PendingIsOwed`: a call that has not settled waits for something that somebody
  owes it (`Owed`: `listen()`, the handshake, a driver that can talk or be refused,
  its own `await`) or is `Stranded`. No step of another call, of `end()` or of the
  tunnel can take that from it. This is the part of `ConnectSettles` that is not
  fairness. Its invariant, `LegsInOrder`, relates the adapter's leg to what
  `handleSSHError()` has heard.

For callers that do not interrupt, `PatientInv` adds
that a pending call is the reason why its Database is connecting, which gives
`OneAttempt` and `ResolvedStaysOwned`. Without a tunnel, `DirectInv` adds that
nothing but its adapter rejects a call, whence `OpenStaysOwned`. For callers who
also drop forgotten Databases, `LiveInv` adds that registry and names agree and that a Database that
is connecting or connected is registered. This gives `EndDisconnects`, and
`KeepsContract`: `Spec => ContractSpec`, step by step, with tunnel and without.

`DatabaseApi_proofs`, for any use of the library, shows `OperationsReachOpen`.
Operations do not disturb the session, so its invariant is `SessionInv` again with
the types of the operations (`OpsType`): `EndedIffConnecting` is what makes the
unchecked operations safe but during a second `connect()`. For callers that do not
interrupt, `ScriptsLoseOnlyEnded`: whatever replaces or drops the adapter of a
Database has told it to disconnect (`LosesOnlyEnded`, which needs `PatientInv`: a
`connect()` that resolves overwrites an adapter that its own start has ended), so a
script that waits for an adapter waits for the one its Database still has, or for one
that has been told (`ScriptsAwaitTheirs`).

`SshTunnel_proofs`, for any set of sockets and every configuration: type
correctness, which includes that a stream belongs to a listed client that has been
connected, and `ImplementsContract`: every step of the tunnel is one of
`TunnelContract` or a stutter. A step of one socket changes one leg (`SocketStep`),
`Closed` ends several. The one extra invariant is that nothing happens to sockets
before the server has started: the contract's `ForwardError` closes a listener
that must have been open, or draining. From `ConnectedIsListed` (who has been
connected is listed and was asked to forward) follow `AcceptedIsOwed`, that a socket
of which the Server has not heard yet always waits for a callback that ssh2 owes,
and `CloseEndsAll`, that the event `close` leaves no client connected.

`QueryCancel_proofs`, for any queries, calls, connections and limit of the pool,
and both adapters. `QueryInv` has three parts. `JobInv` follows jobs through the
pool: a job is in the line once and only while it waits (`LineIsFair`), the jobs
that use a connection are those that hold one, each exactly one, and a run knows
which (`HoldersAreActive`), so that every path to the end of a job gives back what
it holds. `PoolIsLimited` needs of it nothing but types. `CallInv` follows what calls
have learned: a pid in `pid` or read by a `cancel()` is that of a run of the same
query (`PidIsOfRun`, `TargetIsOfRun`), `canceled` is the work of a `cancel()` that
succeeded, an outcome "canceled" of a `canceled` query. `CallStep` says what a step
may do to these, each action is shown to be one, and `CallsKeep` that it keeps
`CallInv`. From these: `TypeCorrect`, `PoolIsConserved`, `CanceledHonestly`, and
`CancelingMeant`, whose second half needs `CallStep` to say which steps put the flag
down: a `cancel()` that fails and a run that ends by it. `CancelIsOwed` is the safety half of `CancelSettles`: a
`cancel()` with a connection can be served on it, and one that waits for a
connection is given one or something moves on a connection of the pool, unless
statements occupy what it needs. So a `cancel()` never waits for a job that waits
for it, however small the pool is. It rests on `LineIsWhole` and `HoldersHaveSent`:
who waits is in the line, and who holds a connection has a statement on it that has
not been answered. `UsedUp` excepts the bound of the model on the connections that
are ever opened. `AcceptedIsPolled` is the same for `AcceptedEndsRun`: once a
`cancel()` has succeeded, the next poll of any run of its query finds it out.

`RequestCancel_proofs`, for any executions and cancels and texts of any length.
`RunInv` says that a request is marked only because somebody asked
(`StopsAreAsked`), that only what is open and unfinished executes
(`ExecutesOpen`), and that a cancellation is the end of a SQL Server request, and
in SQLite of a statement (`CanceledIsEnd`). From these: `TypeCorrect`,
`OutcomesMeant`, `QuietAfterCancel`. With `WaitsInOrder`, also `CallIsOwed`: a SQL
Server request that somebody has canceled is marked until it settles, so the driver
ends it even if its statement does not; a SQLite handle whose statements are over
has a promise that has settled, so nothing keeps it open.

`TruncateAll_proofs`, for any finite or infinite set of tables, any order of
statements, and any set of versions in which `Release` holds (they begin with a
number, and 8 is followed by a second one: `VersionAssumption`). About
`versionCompare()`: `CompareIsAntisymmetric`, also with parts that are no numbers,
and `CascadeFromEightFour`, that comparing with 8.4 decides exactly what the
adapter wants to know. The safety properties of `TruncateAll` follow from one
invariant, `CallInv`. Its core is `Executed`: as long as no statement has failed,
the rows and the switched off foreign keys are what the executed statements of
the text make of them, whatever their order. So the end of the text (`TextEnds`)
means `Clean`. The other conjuncts say in which phases a transaction is open, that
only adapters without one `Continues` after a failure, and that after the answer
nothing is under way but the batches of SQLite and Cassandra; none of the
properties is inductive without them (`PoolIsClean`, for one, depends on the
transaction being over whenever a call ends). From these: `SuccessIsClean`,
`PostgresIsAtomic`, `GivesBackClean`, `CascadesWhereItCan`, `QuietAfterAnswer`.

`Results_proofs`, for texts of any length, any kinds of statements and any counts.
`ResultsInv` follows the answers while they come in: unless a procedure answers
twice, the answers are those of the statements so far, one each and in their order
(`AnswersInOrder`); SQL Server's record sets are those of them with columns, still in
order, and all of them if every statement has columns (`SetsInOrder`); and a resolved
call has sent everything and returns `Parsed`. That the commands belong to the
statements by position is `Given`, from `Init`. Then the properties are about one call
of `parseRowQueryResult()` (`ResultIs`, `CommandIs`): `TypeCorrect`, `OneEach`,
`OwnCommandsOnly`, `OwnCounts`.

`Catalog_proofs`, for any database that the engine allows, any question and any
change by its users. `CatalogInv` says which names are told apart at all times: of
tables and views in a schema (`ObjectsApart`), of constraints as far as each engine
goes (`ConstraintsApart`); and that an answer is the `Reply` to its question, unless
the database has changed since, also in the middle of PostgreSQL's three statements
(`ScriptSoFar`). The properties are then facts about relational expressions, one
lemma for each operation (`ColumnsMatch`, `TriggersMatch`, `KeysFirst`,
`PostgresKeysMatch`, `SqlServerScriptIs`, ...): every row that is expected is
returned, no other is, and no two rows that look alike come from different parts.
From these: `TypeCorrect`, `ExactLists`, `OwnParts`, `ExactConstraints`,
`WholeScript`, `Answers`. About the filters, for any names: the conditions of
`BuildFilter` select what the filter asks for (`ConditionsSelect`), and so does
MySQL's `filterDatabase()` (`FiltersAgree`), although one is evaluated by the
database and the other in JavaScript.

Every invariant that a run checks is also stated by a theorem, and so are
`ContractSpec`, the order of events of `TunnelContract`, and the action properties.
Only model-checked is liveness: `ConnectSettles`, `ContractFairSpec`,
`LegsKeepContract` as far as its fairness goes, `ClosedReleases`, `AcceptedEndsRun`,
`CancelSettles`, `CancelSettlesRequest`, `HandlesClose`. The prover has neither
`ENABLED` nor the fairness rules. What can be said without them is proved: that who
waits is owed something, and by whom (`PendingIsOwed`, `CancelIsOwed`,
`AcceptedIsPolled`, `CallIsOwed`, `AcceptedIsOwed`, `CloseEndsAll`). These find a
step missing or a flag lost; that each such step is taken in the end, and that there
are finitely many before the goal, is left to TLC. Only proved, without a run:
`NeverEndedThrice` (`EndedAtMostTwice`), `EndDisconnects`, `QuietAfterAnswer`,
`OneTunnelInTurn`, the six just named, and the lemmas about `versionCompare()` and the
filters.

## 5. Not modelled, and the plan

Left out for good, because it is text, or calls of a driver without a choice of
their own:

- `connect()` and `disconnect()` of the adapters, the creation and configuration of
  pools. In `ServerSession` an adapter connects or fails.
- The wording of queries and scripts, quoting, `getQuerySelectTop()` and
  `setSelectLimit()`.
- Validation of configurations, the lookup error for an unknown client, the logger,
  re-exports, reading of files.
- `query()` of Cassandra, which cannot be canceled and only forwards to
  `executeQuery()`.
- Rows and fields of results, beyond their number.

What could come next:

1. `connect()` of the adapters where it has a choice: SQL Server makes its pool on
   first use, and an adapter whose version query fails leaves its pool open.
2. Measures for the liveness properties: that what is owed to a call can only be
   delayed finitely often.
