----------------------------- MODULE SshTunnel ------------------------------
(***************************************************************************)
(* One SSH tunnel, tunnel.ts: a local net.Server that starts an SSH client *)
(* for every socket it accepts and forwards the socket through it.         *)
(*                                                                         *)
(* A socket s names its client and its stream too.  The driver at the      *)
(* other end of a socket, the SSH server and the Server that owns the      *)
(* tunnel are the environment.                                             *)
(***************************************************************************)
EXTENDS Naturals

CONSTANT Sockets        \* connections of drivers to the local port

VARIABLES
    config,             \* what ServerConfig gives
    server,             \* the net.Server, from configTunnel() to its 'close' event
    socket,             \* "failed": before it was forwarded
    client,             \* the ssh2 Client of a socket
    stream,             \* what forwardOut() has come to
    listed,             \* the clients among `connections`
    successes, errors   \* 'success' and 'error' events emitted on the net.Server

vars == <<config, server, socket, client, stream, listed, successes, errors>>

Configs ==
    [address : BOOLEAN, ssh : BOOLEAN,
     auth : {"usable", "missing", "unparsable"}]

\* configTunnel() throws: no host or port, no ssh, no socket of an agent to use, or a key
\* file that cannot be read.
Incomplete == ~config.address \/ ~config.ssh \/ config.auth = "missing"

\* client.connect() throws: a key that cannot be parsed.
ConnectThrows == config.auth = "unparsable"

NoSocketOpen == \A s \in Sockets : socket[s] # "open"

\* The pipes end with the stream, and the socket with them.
EndStream(S) ==
    /\ stream' = [s \in Sockets |-> IF s \in S /\ stream[s] = "open" THEN "over" ELSE stream[s]]
    /\ socket' = [s \in Sockets |-> IF s \in S /\ stream[s] = "open" /\ socket[s] = "open"
                                    THEN "closed" ELSE socket[s]]

-----------------------------------------------------------------------------
(* The promise.                                                            *)

Configure ==
    /\ server = "configuring"
    /\ server' = IF Incomplete THEN "rejected" ELSE "opening"
    /\ UNCHANGED <<config, socket, client, stream, listed, successes, errors>>

\* listen() calls back, or its 'error' rejects.
Listen ==
    /\ server = "opening"
    /\ server' \in {"listening", "rejected"}
    /\ UNCHANGED <<config, socket, client, stream, listed, successes, errors>>

-----------------------------------------------------------------------------
(* A socket and its client.                                                *)

\* Mutants of Accept: the first socket's client is to serve the others too; the exception
\* of client.connect() is swallowed.
AcceptShared(s) ==
    /\ server = "listening" /\ socket[s] = "none"
    /\ socket' = [socket EXCEPT ![s] = "open"]
    /\ client' = [client EXCEPT ![s] = IF listed = {} THEN "connecting" ELSE @]
    /\ UNCHANGED <<config, server, stream, listed, successes, errors>>
AcceptSilently(s) ==
    /\ server = "listening" /\ socket[s] = "none"
    /\ socket' = [socket EXCEPT ![s] = "open"]
    /\ client' = [client EXCEPT ![s] = IF ConnectThrows THEN "idle" ELSE "connecting"]
    /\ UNCHANGED <<config, server, stream, listed, successes, errors>>

\* The listener of net.createServer().
Accept(s) ==
    /\ server = "listening" /\ socket[s] = "none"
    /\ socket' = [socket EXCEPT ![s] = "open"]
    /\ client' = [client EXCEPT ![s] = IF ConnectThrows THEN "idle" ELSE "connecting"]
    /\ errors' = IF ConnectThrows THEN errors + 1 ELSE errors
    /\ UNCHANGED <<config, server, stream, listed, successes>>

\* `connections.push(client)`, and its mutant without.
PushNothing(s) == s \in Sockets /\ UNCHANGED listed
Push(s)        == listed' = listed \cup {s}

\* 'ready', whatever has become of the socket and the server meanwhile.
ClientReady(s) ==
    /\ client[s] = "connecting"
    /\ client' = [client EXCEPT ![s] = "connected"]
    /\ Push(s)
    /\ stream' = [stream EXCEPT ![s] = "asked"]
    /\ UNCHANGED <<config, server, socket, successes, errors>>

\* 'error' of a client: in its handshake, or when its connection is lost.
ClientFails(s) ==
    /\ client[s] \in {"connecting", "connected"}
    /\ client' = [client EXCEPT ![s] = "failed"]
    /\ EndStream({s})
    /\ errors' = errors + 1
    /\ UNCHANGED <<config, server, listed, successes>>

\* The SSH server ends the connection: nobody listens for that.
ClientEnds(s) ==
    /\ client[s] = "connected"
    /\ client' = [client EXCEPT ![s] = "ended"]
    /\ EndStream({s})
    /\ UNCHANGED <<config, server, listed, successes, errors>>

\* The SSH server ends the stream, the client stays connected.
StreamEnds(s) ==
    /\ client[s] = "connected" /\ stream[s] = "open"
    /\ EndStream({s})
    /\ UNCHANGED <<config, server, client, listed, successes, errors>>

\* The callback of forwardOut() with a stream.
ForwardOk(s) ==
    /\ stream[s] = "asked" /\ client[s] = "connected"
    /\ stream' = [stream EXCEPT ![s] = "open"]
    /\ successes' = successes + 1
    /\ UNCHANGED <<config, server, socket, client, listed, errors>>

\* server.close() stops listening.
Closing == IF server = "listening" THEN "draining" ELSE server

\* The callback of forwardOut() with an error, which a client that is gone gives too.
\* The socket stays open.
ForwardErr(s) ==
    /\ stream[s] = "asked"
    /\ stream' = [stream EXCEPT ![s] = "refused"]
    /\ server' = Closing
    /\ errors' = errors + 1
    /\ UNCHANGED <<config, socket, client, listed, successes>>

\* The driver closes its connection.  The client stays connected.
DriverCloses(s) ==
    /\ socket[s] = "open"
    /\ socket' = [socket EXCEPT ![s] = "closed"]
    /\ stream' = [stream EXCEPT ![s] = IF @ = "open" THEN "over" ELSE @]
    /\ UNCHANGED <<config, server, client, listed, successes, errors>>

\* 'error' of a socket.
SocketFails(s) ==
    /\ socket[s] = "open"
    /\ socket' = [socket EXCEPT ![s] = IF stream[s] = "open" THEN "closed" ELSE "failed"]
    /\ stream' = [stream EXCEPT ![s] = IF @ = "open" THEN "over" ELSE @]
    /\ errors' = errors + 1
    /\ UNCHANGED <<config, server, client, listed, successes>>

-----------------------------------------------------------------------------
(* The end.                                                                *)

\* Server.end() closes a tunnel that it knows, which is one that has resolved.
Close ==
    /\ server = "listening"
    /\ server' = Closing
    /\ UNCHANGED <<config, socket, client, stream, listed, successes, errors>>

\* 'close' comes when the last socket is gone, and ends what is listed; clients that
\* are not connected yet are not.
Closed ==
    /\ server = "draining" /\ NoSocketOpen
    /\ server' = "closed"
    /\ client' = [s \in Sockets |->
                    IF s \in listed /\ client[s] = "connected" THEN "ended" ELSE client[s]]
    /\ EndStream(listed)
    /\ UNCHANGED <<config, listed, successes, errors>>

-----------------------------------------------------------------------------
Init ==
    /\ config \in Configs
    /\ server = "configuring"
    /\ socket = [s \in Sockets |-> "none"]
    /\ client = [s \in Sockets |-> "none"]
    /\ stream = [s \in Sockets |-> "none"]
    /\ listed = {}
    /\ successes = 0 /\ errors = 0

Next ==
    \/ Configure \/ Listen \/ Close \/ Closed
    \/ \E s \in Sockets : \/ Accept(s) \/ ClientReady(s) \/ ClientFails(s) \/ ClientEnds(s)
                          \/ StreamEnds(s) \/ ForwardOk(s) \/ ForwardErr(s)
                          \/ DriverCloses(s) \/ SocketFails(s)

Spec == Init /\ [][Next]_vars

\* A key file is read or not, and listen() answers; ssh2 gives up a handshake after its
\* readyTimeout, and calls the callback of forwardOut() at the latest when the
\* connection is lost; Node.js emits 'close' for a server that is drained.  Drivers and
\* SSH servers owe nothing.
Handshake(s) == client[s] = "connecting" /\ (ClientReady(s) \/ ClientFails(s))
Forwards(s)  == ForwardOk(s) \/ ForwardErr(s)

Fairness ==
    /\ WF_vars(Configure) /\ WF_vars(Listen) /\ WF_vars(Closed)
    /\ \A s \in Sockets : WF_vars(Handshake(s)) /\ WF_vars(Forwards(s))

FairSpec == Spec /\ Fairness

-----------------------------------------------------------------------------
(* Properties.                                                             *)

\* Every variable has its type, a stream is that of a listed client, listed clients have
\* been connected, and only a socket has a client.
TypeOK ==
    /\ config \in Configs
    /\ server \in {"configuring", "opening", "listening", "draining", "closed", "rejected"}
    /\ socket \in [Sockets -> {"none", "open", "closed", "failed"}]
    /\ client \in [Sockets -> {"none", "idle", "connecting", "connected", "failed", "ended"}]
    /\ stream \in [Sockets -> {"none", "asked", "refused", "open", "over"}]
    /\ listed \subseteq Sockets
    /\ successes \in Nat /\ errors \in Nat
    /\ \A s \in Sockets :
          /\ stream[s] # "none" => s \in listed
          /\ s \in listed => client[s] \in {"connected", "failed", "ended"}
          /\ socket[s] = "none" <=> client[s] = "none"

\* What ServerSession sees of a socket and its client.
Leg(s) ==
    IF socket[s] = "none" THEN "none"
    ELSE IF socket[s] = "failed" \/ stream[s] = "refused" THEN "broken"
    ELSE IF stream[s] = "open" THEN "up"
    ELSE IF stream[s] = "over" THEN "down"
    ELSE IF client[s] \in {"idle", "failed"} THEN "broken" ELSE "accepted"

Listener ==
    IF server \in {"configuring", "opening"} THEN "opening"
    ELSE IF server = "listening" THEN "listening" ELSE "closed"

Contract == INSTANCE TunnelContract WITH tunnel <- Listener, leg <- [s \in Sockets |-> Leg(s)]

\* The tunnel does for its Server what ServerSession assumes (tunnel.ts 18-88): its
\* promise settles; a leg that comes up emits 'success', one that breaks 'error', and
\* every accepted leg does one of them; a failed forwardOut() closes the listener.
LegsKeepContract == Contract!FairSpec
LegsAreLegs      == Contract!Spec

\* Once the listener is closed and the drivers have closed their sockets, the clients
\* that are connected do not stay so (tunnel.ts 67-70).  It says nothing of clients
\* that get ready after 'close': they stay connected for ever.
ClosedReleases ==
    \A s \in Sockets :
        server = "draining" /\ NoSocketOpen /\ client[s] = "connected" ~> client[s] # "connected"
=============================================================================
