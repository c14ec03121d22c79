--------------------------- MODULE ServerSession ---------------------------
(***************************************************************************)
(* One Server, the Database objects created from it, and the SSH tunnel    *)
(* they share: server.ts, and connect(), disconnect() and                  *)
(* handleSSHError() of database.ts.                                        *)
(*                                                                         *)
(* JavaScript runs one segment at a time, from an await to the next one.   *)
(* An action is one such segment: Connect is connect() up to its first     *)
(* await, TunnelOpened the segment between `await connectTunnel` and       *)
(* `await Promise.all`, Resolve and Reject the segment after that.  What   *)
(* the segments wait for (the tunnel's listen(), the SSH client, the       *)
(* driver) are actions of the environment.                                 *)
(*                                                                         *)
(* A call c of connect() also names what it creates: the adapter c, the    *)
(* tunnel c, and the leg c, which is the socket of the adapter's driver to *)
(* the local end of a tunnel together with its SSH client (tunnel.ts 26).  *)
(***************************************************************************)
EXTENDS Naturals

CONSTANTS
    Keys,           \* names of databases, the keys of Server.databases
    Dbs,            \* identities of Database objects
    Calls,          \* calls of Database.connect()
    None,           \* null, undefined
    Ssh,            \* server.config.ssh is given
    MayInterrupt,   \* callers call disconnect() or end() while a connect() is pending
    MayReuse        \* callers go on using a Database the Server has forgotten

ASSUME SessionAssumption ==
    /\ None \notin Keys \cup Dbs \cup Calls
    /\ {Ssh, MayInterrupt, MayReuse} \subseteq BOOLEAN

VARIABLES
    databases,      \* Server.databases
    dbKey,          \* Database.database, None before the object exists
    connecting,     \* Database.connecting
    connection,     \* Database.connection, named by the call that made the adapter
    sshTunnel,      \* Server.sshTunnel, named by the call that made the tunnel
    localPort,      \* server.config.localPort, named by the tunnel that listens on it
    pc,             \* where each call of connect() is
    caller,         \* the Database a call was made on
    adapter,        \* the state of a call's adapter: adapter.connect()
    ends,           \* how often adapter.disconnect() has been called
    via,            \* the local port the adapter's driver dials
    watch,          \* the tunnel handleSSHError() listens on
    ssh,            \* the promise of handleSSHError()
    tunnel,         \* the net.Server of tunnel.ts
    leg             \* the driver's connection through the tunnel

serverVars == <<databases, sshTunnel, localPort>>
dbVars     == <<dbKey, connecting, connection>>
callVars   == <<pc, caller, adapter, ends, via, watch, ssh>>
netVars    == <<tunnel, leg>>
vars       == <<serverVars, dbVars, callVars, netVars>>

-----------------------------------------------------------------------------
Pending(c) == pc[c] \in {"tunnel", "adapter"}

\* The Database objects Server.db(name) still finds.
Registered(d) == dbKey[d] # None /\ databases[dbKey[d]] = d

\* checkIsConnected(), which most operations on a connection call first; the mutant
\* does not look at `connecting`.
HasConnection(d) == connection[d] # None
IsConnected(d) == ~connecting[d] /\ connection[d] # None

\* What a caller may do with d, and when it may end it.
Usable(d) == dbKey[d] # None /\ (MayReuse \/ Registered(d))
Quiet(d)  == MayInterrupt \/ ~connecting[d]

\* Server.removeDatabase(), by name: whatever is registered under the name goes.
RemoveDatabases(S) ==
    databases' = [k \in Keys |-> IF \E d \in S : dbKey[d] = k THEN None ELSE databases[k]]

\* Database.disconnect() of every database of S.
Drop(S) ==
    /\ connecting' = [d \in Dbs |-> connecting[d] /\ d \notin S]
    /\ connection' = [d \in Dbs |-> IF d \in S THEN None ELSE connection[d]]
    /\ ends' = [c \in Calls |->
                  IF \E d \in S : connection[d] = c THEN ends[c] + 1 ELSE ends[c]]
    /\ RemoveDatabases(S)

\* handleSSHError(): a promise that the events of the present tunnel settle.
WatchTunnel(c) ==
    /\ watch' = [watch EXCEPT ![c] = sshTunnel']
    /\ ssh'   = [ssh EXCEPT ![c] = IF sshTunnel' = None THEN "none" ELSE "waiting"]

\* configDatabase() of an adapter, which looks at sshTunnel and not at config.ssh.
DialTunnel(c) == via' = [via EXCEPT ![c] = IF sshTunnel' = None THEN None ELSE localPort']

\* adapterFactory(), then adapter.connect() and handleSSHError() called in one segment.
NewAdapter(c) ==
    /\ pc'      = [pc EXCEPT ![c] = "adapter"]
    /\ adapter' = [adapter EXCEPT ![c] = "opening"]
    /\ DialTunnel(c)
    /\ WatchTunnel(c)

\* The 'success' and 'error' events of tunnel t settle the promises that wait on it.
Emit(t, event) ==
    ssh' = [c \in Calls |->
              IF watch[c] = t /\ ssh[c] = "waiting" THEN event ELSE ssh[c]]

-----------------------------------------------------------------------------
(* The callers of the library.                                             *)

\* Mutant of CreateConnection: the name is stored, not the Database.
CreateConnectionStoresName(k, d) ==
    /\ databases[k] = None /\ dbKey[d] = None
    /\ databases' = [databases EXCEPT ![k] = k]
    /\ dbKey' = [dbKey EXCEPT ![d] = k]
    /\ UNCHANGED <<connecting, connection, sshTunnel, localPort, callVars, netVars>>

\* Server.createConnection(); a name that is registered already changes nothing.
CreateConnection(k, d) ==
    /\ databases[k] = None /\ dbKey[d] = None
    /\ databases' = [databases EXCEPT ![k] = d]
    /\ dbKey' = [dbKey EXCEPT ![d] = k]
    /\ UNCHANGED <<connecting, connection, sshTunnel, localPort, callVars, netVars>>

\* The guard of connect(); its mutant lets every call through.
NoGuard(d)      == d \in Dbs
NotInProgress(d) == ~connecting[d]

\* `this.connecting = true`, and its mutant without.
NoFlag(d)  == d \in Dbs /\ UNCHANGED connecting
SetFlag(d) == connecting' = [connecting EXCEPT ![d] = TRUE]

\* A previous adapter is told to disconnect, but stays in `connection`; the
\* mutant does not tell it.
KeepPrevious(d) == d \in Dbs /\ UNCHANGED ends
EndPrevious(d)  == ends' = [a \in Calls |-> IF connection[d] = a THEN ends[a] + 1 ELSE ends[a]]

\* Database.connect() on a database that is connecting already.
ConnectRefused(d, c) ==
    /\ Usable(d) /\ ~NotInProgress(d)
    /\ pc[c] = "idle"
    /\ pc' = [pc EXCEPT ![c] = "refused"]
    /\ caller' = [caller EXCEPT ![c] = d]
    /\ UNCHANGED <<serverVars, dbVars, adapter, ends, via, watch, ssh, netVars>>

\* Database.connect() to its first await.
Connect(d, c) ==
    /\ Usable(d) /\ NotInProgress(d)
    /\ pc[c] = "idle"
    /\ caller' = [caller EXCEPT ![c] = d]
    /\ SetFlag(d)
    /\ EndPrevious(d)
    /\ UNCHANGED <<databases, dbKey, connection, sshTunnel, localPort, leg>>
    /\ IF Ssh /\ sshTunnel = None
       THEN /\ pc' = [pc EXCEPT ![c] = "tunnel"]
            /\ tunnel' = [tunnel EXCEPT ![c] = "opening"]
            /\ UNCHANGED <<adapter, via, watch, ssh>>
       ELSE /\ NewAdapter(c)
            /\ UNCHANGED tunnel

\* Database.disconnect().
Disconnect(d) ==
    /\ Usable(d) /\ Quiet(d)
    /\ Drop({d})
    /\ UNCHANGED <<dbKey, sshTunnel, localPort, pc, caller, adapter, via, watch, ssh, netVars>>

\* The loop of end().
DropAll == Drop({d \in Dbs : Registered(d)})

\* Closing the tunnel only stops it from listening, the legs live on.
CloseTunnel ==
    /\ sshTunnel' = None
    /\ tunnel' = [t \in Calls |-> IF t = sshTunnel THEN "closed" ELSE tunnel[t]]

\* Server.end().
End ==
    /\ \A d \in Dbs : Quiet(d)
    /\ DropAll
    /\ CloseTunnel
    /\ UNCHANGED <<dbKey, localPort, pc, caller, adapter, via, watch, ssh, leg>>

-----------------------------------------------------------------------------
(* connect() after an await.                                               *)

\* The results of connectTunnel go to the Server, over whatever it holds by now;
\* the mutant keeps the port of an earlier tunnel.
KeepPort(c) ==
    /\ sshTunnel' = c
    /\ localPort' = IF localPort = None THEN c ELSE localPort
StoreTunnel(c) ==
    /\ sshTunnel' = c
    /\ localPort' = c

\* The catch block disconnects the database, not the adapter that was being
\* opened.  The mutants leave `connecting` true, or the database registered.
FailKeepsFlag(c) ==
    /\ pc' = [pc EXCEPT ![c] = "rejected"]
    /\ UNCHANGED <<databases, connecting, connection, ends>>
FailKeepsName(c) ==
    /\ pc' = [pc EXCEPT ![c] = "rejected"]
    /\ connecting' = [connecting EXCEPT ![caller[c]] = FALSE]
    /\ connection' = [connection EXCEPT ![caller[c]] = None]
    /\ UNCHANGED <<databases, ends>>
Fail(c) ==
    /\ pc' = [pc EXCEPT ![c] = "rejected"]
    /\ Drop({caller[c]})

\* Promise.all is rejected as soon as one of its promises is.  The mutants give
\* up a driver that has not answered, or are deaf to the tunnel's errors.
TimesOut(c)  == adapter[c] \in {"opening", "failed"}
DeafToSsh(c) == adapter[c] = "failed"
Fails(c)     == adapter[c] = "failed" \/ ssh[c] = "error"

\* `await connectTunnel` returns.
TunnelOpened(c) ==
    /\ pc[c] = "tunnel"
    /\ tunnel' = [tunnel EXCEPT ![c] = "listening"]
    /\ StoreTunnel(c)
    /\ NewAdapter(c)
    /\ UNCHANGED <<databases, dbVars, caller, ends, leg>>

\* `await connectTunnel` throws: a bad configuration, or listen() failed.
TunnelFails(c) ==
    /\ pc[c] = "tunnel"
    /\ tunnel' = [tunnel EXCEPT ![c] = "closed"]
    /\ Fail(c)
    /\ UNCHANGED <<dbKey, sshTunnel, localPort, caller, adapter, via, watch, ssh, leg>>

\* `await Promise.all` returns: both promises are resolved.
Resolve(c) ==
    /\ pc[c] = "adapter"
    /\ adapter[c] = "open" /\ ssh[c] \in {"none", "success"}
    /\ pc' = [pc EXCEPT ![c] = "resolved"]
    /\ connection' = [connection EXCEPT ![caller[c]] = c]
    /\ connecting' = [connecting EXCEPT ![caller[c]] = FALSE]
    /\ UNCHANGED <<serverVars, dbKey, caller, adapter, ends, via, watch, ssh, netVars>>

\* `await Promise.all` throws.
Reject(c) ==
    /\ pc[c] = "adapter" /\ Fails(c)
    /\ Fail(c)
    /\ UNCHANGED <<dbKey, sshTunnel, localPort, caller, adapter, via, watch, ssh, netVars>>

-----------------------------------------------------------------------------
(* The environment: the tunnel's sockets, the SSH clients, the drivers.    *)

\* The driver's socket reaches the tunnel, which starts an SSH client for it.
Accept(c) ==
    /\ adapter[c] = "opening" /\ leg[c] = "none" /\ via[c] # None
    /\ tunnel[via[c]] = "listening"
    /\ leg' = [leg EXCEPT ![c] = "accepted"]
    /\ UNCHANGED <<serverVars, dbVars, callVars, tunnel>>

\* The tunnel has a socket of c to forward: the first one of its adapter, or a
\* further one of the pool of an adapter that is open.
Forwardable(c) ==
    \/ leg[c] = "accepted"
    \/ /\ leg[c] = "up" /\ tunnel[via[c]] = "listening"
       /\ adapter[c] = "open" /\ ends[c] = 0

\* forwardOut() succeeds: 'success' is emitted on the whole tunnel, also when the
\* socket that was to be forwarded has failed meanwhile.
Forwarded(c) ==
    /\ Forwardable(c) \/ leg[c] = "broken"
    /\ leg' = [leg EXCEPT ![c] = IF @ = "broken" THEN @ ELSE "up"]
    /\ Emit(via[c], "success")
    /\ UNCHANGED <<serverVars, dbVars, pc, caller, adapter, ends, via, watch, tunnel>>

\* The SSH client or the socket of a leg fails: 'error' on the whole tunnel.  The
\* driver's socket is closed if it was piped; if its client failed before that, it
\* stays open and silent.  A client may also fail long after its leg has ended.
SshError(c) ==
    /\ leg[c] # "none"
    /\ leg' = [leg EXCEPT ![c] = IF @ \in {"up", "down"} THEN "down" ELSE "broken"]
    /\ Emit(via[c], "error")
    /\ UNCHANGED <<serverVars, dbVars, pc, caller, adapter, ends, via, watch, tunnel>>

\* The SSH server ends a leg in good order: no event, the driver's socket is closed.
LegEnds(c) ==
    /\ leg[c] = "up"
    /\ leg' = [leg EXCEPT ![c] = "down"]
    /\ UNCHANGED <<serverVars, dbVars, callVars, tunnel>>

\* forwardOut() fails, perhaps because its client has failed: the tunnel stops
\* listening, and Server.sshTunnel keeps it.
ForwardError(c) ==
    /\ Forwardable(c) \/ (leg[c] = "broken" /\ tunnel[via[c]] = "listening")
    /\ leg' = [leg EXCEPT ![c] = IF @ = "accepted" THEN "broken" ELSE @]
    /\ tunnel' = [tunnel EXCEPT ![via[c]] = "closed"]
    /\ Emit(via[c], "error")
    /\ UNCHANGED <<serverVars, dbVars, pc, caller, adapter, ends, via, watch>>

\* adapter.connect() gets its answers from the database server.
DriverOpens(c) ==
    /\ adapter[c] = "opening"
    /\ via[c] = None \/ leg[c] = "up"
    /\ adapter' = [adapter EXCEPT ![c] = "open"]
    /\ UNCHANGED <<serverVars, dbVars, pc, caller, ends, via, watch, ssh, netVars>>

\* adapter.connect() is rejected: refused, a bad password, a driver's timeout.
DriverFails(c) ==
    /\ adapter[c] = "opening"
    /\ adapter' = [adapter EXCEPT ![c] = "failed"]
    /\ UNCHANGED <<serverVars, dbVars, pc, caller, ends, via, watch, ssh, netVars>>

-----------------------------------------------------------------------------
Init ==
    /\ databases = [k \in Keys |-> None]
    /\ dbKey = [d \in Dbs |-> None]
    /\ connecting = [d \in Dbs |-> FALSE]
    /\ connection = [d \in Dbs |-> None]
    /\ sshTunnel = None
    /\ localPort = None
    /\ pc = [c \in Calls |-> "idle"]
    /\ caller = [c \in Calls |-> None]
    /\ adapter = [c \in Calls |-> "none"]
    /\ ends = [c \in Calls |-> 0]
    /\ via = [c \in Calls |-> None]
    /\ watch = [c \in Calls |-> None]
    /\ ssh = [c \in Calls |-> "none"]
    /\ tunnel = [c \in Calls |-> "none"]
    /\ leg = [c \in Calls |-> "none"]

Next ==
    \/ \E k \in Keys, d \in Dbs : CreateConnection(k, d)
    \/ \E d \in Dbs, c \in Calls : ConnectRefused(d, c) \/ Connect(d, c)
    \/ \E d \in Dbs : Disconnect(d)
    \/ End
    \/ \E c \in Calls : TunnelOpened(c) \/ TunnelFails(c) \/ Resolve(c) \/ Reject(c)
    \/ \E c \in Calls : Accept(c) \/ Forwarded(c) \/ LegEnds(c)
    \/ \E c \in Calls : SshError(c) \/ ForwardError(c)
    \/ \E c \in Calls : DriverOpens(c) \/ DriverFails(c)

Spec == Init /\ [][Next]_vars

\* listen() calls back; ssh2 gives up on a handshake after its readyTimeout and
\* a server answers forwardOut(); a driver that reaches its server, or that finds
\* the local port or its socket closed, gets an answer; a settled promise resumes
\* its await.  A driver whose leg is broken is owed nothing.
TunnelSettles(c) == TunnelOpened(c) \/ TunnelFails(c)
LegSettles(c)    == leg[c] = "accepted" /\ (Forwarded(c) \/ SshError(c) \/ ForwardError(c))
DriverAnswers(c) ==
    /\ leg[c] \in {"none", "up", "down"}
    /\ Accept(c) \/ DriverOpens(c) \/ DriverFails(c)
Resumes(c)       == Resolve(c) \/ Reject(c)

Fairness == \A c \in Calls : /\ WF_vars(TunnelSettles(c))
                             /\ WF_vars(LegSettles(c))
                             /\ WF_vars(DriverAnswers(c))
                             /\ WF_vars(Resumes(c))

FairSpec == Spec /\ Fairness

-----------------------------------------------------------------------------
(* Properties.                                                             *)

\* Every variable has its type.
TypeOK ==
    /\ databases \in [Keys -> Dbs \cup {None}]
    /\ dbKey \in [Dbs -> Keys \cup {None}]
    /\ connecting \in [Dbs -> BOOLEAN]
    /\ connection \in [Dbs -> Calls \cup {None}]
    /\ {sshTunnel, localPort} \subseteq Calls \cup {None}
    /\ pc \in [Calls -> {"idle", "tunnel", "adapter", "resolved", "rejected", "refused"}]
    /\ caller \in [Calls -> Dbs \cup {None}]
    /\ adapter \in [Calls -> {"none", "opening", "open", "failed"}]
    /\ ends \in [Calls -> Nat]
    /\ via \in [Calls -> Calls \cup {None}]
    /\ watch \in [Calls -> Calls \cup {None}]
    /\ ssh \in [Calls -> {"none", "waiting", "success", "error"}]
    /\ tunnel \in [Calls -> {"none", "opening", "listening", "closed"}]
    /\ leg \in [Calls -> {"none", "accepted", "up", "broken", "down"}]

\* What checkIsConnected() (database.ts 40-44) lets through is an adapter whose
\* connect() has succeeded and that nobody has told to disconnect, whatever
\* callers do: connect() leaves the old adapter in `connection` while it ends it,
\* so this rests on `connecting`, which several segments of several calls reset.
UsableIsOpen ==
    \A d \in Dbs : IsConnected(d)
        => adapter[connection[d]] = "open" /\ ends[connection[d]] = 0

\* An adapter is told to disconnect at most twice: by the connect() that
\* replaces it, and by the disconnect() of that connect() when it fails
\* (database.ts 59 and 92).
EndedAtMostTwice == \A c \in Calls : ends[c] <= 2

\* With config.ssh every adapter dials the local port of a tunnel, and
\* handleSSHError() listens on the tunnel behind that very port, although
\* sshTunnel and localPort are shared and other calls overwrite them (database.ts 63-76).
DialsWhatItWatches ==
    \A c \in Calls : adapter[c] # "none" =>
        via[c] = watch[c] /\ (Ssh <=> via[c] # None)

\* While callers do not interrupt a pending connect(): a Database has at most
\* one attempt under way, the promise of database.ts 50.
OneAttemptPerDatabase ==
    \A c1, c2 \in Calls :
        Pending(c1) /\ Pending(c2) /\ caller[c1] = caller[c2] => c1 = c2

\* While callers do not interrupt a pending connect(): the adapter of a
\* connect() that succeeded is the `connection` of its Database until it is told
\* to disconnect, so no established adapter is out of reach (database.ts 58-78).
ResolvedIsOwned ==
    \A c \in Calls : pc[c] = "resolved" /\ ends[c] = 0 => connection[caller[c]] = c

\* Without a tunnel, a call whose adapter is open either is about to store it or
\* has stored it: a rejected connect() leaves no open adapter behind (database.ts 76-82).
OpenIsOwned ==
    \A c \in Calls : adapter[c] = "open" /\ ends[c] = 0 =>
        Pending(c) \/ connection[caller[c]] = c

\* Server.end() disconnects all connected databases, as its comment says
\* (server.ts 57): after it no Database has a connection.
EndDisconnectsEveryDatabase ==
    [][End => \A d \in Dbs : connection'[d] = None]_vars

\* The Server keeps the one tunnel that listens: nothing else could close it
\* (database.ts 62-65, server.ts 65-68).
ListeningIsKept == \A t \in Calls : tunnel[t] = "listening" => sshTunnel = t

\* A call whose leg breaks before it is up, after a 'success' of another one on
\* their tunnel: handleSSHError() has resolved, so 'error' no longer reaches the
\* call, and its driver waits for ever.
Stranded(c) == ssh[c] = "success" /\ leg[c] = "broken" /\ adapter[c] = "opening"

\* Every connect() settles, unless it is stranded (database.ts 46-86).
ConnectSettles ==
    \A c \in Calls : Pending(c) ~> ~Pending(c) \/ Stranded(c)

\* The life of a Database as its caller sees it.  The values "lost" and "leaked"
\* are unknown to the contract: a connection that is not open, and a Database the
\* Server has forgotten that is connecting or connected.
DbState(d) ==
    CASE dbKey[d] = None -> "unborn"
      [] dbKey[d] # None /\ ~Registered(d) ->
           IF connecting[d] \/ connection[d] # None THEN "leaked" ELSE "closed"
      [] Registered(d) /\ connecting[d] -> "connecting"
      [] Registered(d) /\ ~connecting[d] /\ connection[d] = None -> "idle"
      [] OTHER -> IF adapter[connection[d]] = "open" /\ ends[connection[d]] = 0
                  THEN "ready" ELSE "lost"

Contract == INSTANCE ConnectionContract WITH
              current <- databases, state <- [d \in Dbs |-> DbState(d)]

\* Callers who neither interrupt a connect() nor reuse a forgotten Database get
\* the contract (server.ts 52-88, database.ts 46-97), with and without a tunnel.
ContractSpec == Contract!Spec

\* Without a tunnel the contract's connections also all settle.
ContractFairSpec == Contract!FairSpec
=============================================================================
