------------------------ MODULE ServerSession_proofs ------------------------
(***************************************************************************)
(* Proofs about ServerSession, for any Keys, Dbs and Calls.                *)
(*                                                                         *)
(* The inductive invariant SessionInv says of every Database whose         *)
(* connection an adapter is that this adapter was opened by a call of this *)
(* very Database, and that it has been told to disconnect exactly when the *)
(* Database is connecting again.  The first sections hold for any callers, *)
(* the later ones for callers who await connect(), and for those who drop  *)
(* a Database that the Server has forgotten; these get ConnectionContract. *)
(***************************************************************************)
EXTENDS ServerSession, TLAPS

\* The adapter a Database holds is open and was stored by a call of its own.
HoldsItsOwn ==
    \A d \in Dbs : connection[d] # None =>
        /\ adapter[connection[d]] = "open"
        /\ pc[connection[d]] = "resolved"
        /\ caller[connection[d]] = d

\* It has been told to disconnect once if the Database is connecting again, and
\* not at all otherwise.
EndedIffConnecting ==
    \A d \in Dbs : connection[d] # None =>
        ends[connection[d]] = IF connecting[d] THEN 1 ELSE 0

\* Only the adapter of a call that resolved is ever told to disconnect.
EndedWasResolved ==
    \A c \in Calls : /\ ends[c] <= 2
                     /\ ends[c] # 0 => pc[c] = "resolved"

\* A call that was made knows its Database; before it has an adapter, none exists.
CallerKnown ==
    \A c \in Calls : /\ pc[c] # "idle" => caller[c] \in Dbs
                     /\ pc[c] \in {"idle", "tunnel"} => adapter[c] = "none"

SessionInv ==
    TypeOK /\ HoldsItsOwn /\ EndedIffConnecting /\ EndedWasResolved /\ CallerKnown

-----------------------------------------------------------------------------
\* Dropping Databases keeps what is said of those that remain (database.ts 88-97).
LEMMA DropKeeps ==
    ASSUME SessionInv, NEW S \in SUBSET Dbs, Drop(S),
           UNCHANGED <<adapter, caller>>,
           \A c \in Calls : pc[c] = "resolved" => pc'[c] = "resolved"
    PROVE  HoldsItsOwn' /\ EndedIffConnecting' /\ EndedWasResolved'
<1> USE SessionAssumption DEF SessionInv, TypeOK
<1>1. HoldsItsOwn'
  BY DEF HoldsItsOwn, Drop
<1>2. EndedIffConnecting'
  <2> SUFFICES ASSUME NEW d \in Dbs, connection'[d] # None
               PROVE  ends'[connection'[d]] = IF connecting'[d] THEN 1 ELSE 0
    BY DEF EndedIffConnecting
  <2>1. d \notin S /\ connection'[d] = connection[d] /\ connecting'[d] = connecting[d]
    BY DEF Drop
  <2>2. \A e \in S : connection[e] # connection[d]
    BY <2>1 DEF HoldsItsOwn
  <2>3. ends'[connection[d]] = ends[connection[d]]
    BY <2>1, <2>2 DEF Drop
  <2> QED
    BY <2>1, <2>3 DEF EndedIffConnecting
<1>3. EndedWasResolved'
  <2> SUFFICES ASSUME NEW c \in Calls
               PROVE  ends'[c] <= 2 /\ (ends'[c] # 0 => pc'[c] = "resolved")
    BY DEF EndedWasResolved
  <2>1. CASE \E d \in S : connection[d] = c
    <3>1. PICK d \in S : connection[d] = c
      BY <2>1
    <3>2. ends[c] <= 1 /\ pc[c] = "resolved"
      BY <3>1 DEF EndedIffConnecting, HoldsItsOwn
    <3> QED
      BY <2>1, <3>2 DEF Drop
  <2>2. CASE ~\E d \in S : connection[d] = c
    BY <2>2 DEF Drop, EndedWasResolved
  <2> QED
    BY <2>1, <2>2
<1> QED
  BY <1>1, <1>2, <1>3

LEMMA DropType ==
    ASSUME TypeOK, NEW S \in SUBSET Dbs, Drop(S)
    PROVE  /\ databases' \in [Keys -> Dbs \cup {None}]
           /\ connecting' \in [Dbs -> BOOLEAN]
           /\ connection' \in [Dbs -> Calls \cup {None}]
           /\ ends' \in [Calls -> Nat]
<1>1. databases' \in [Keys -> Dbs \cup {None}] /\ connection' \in [Dbs -> Calls \cup {None}]
  BY DEF TypeOK, Drop, RemoveDatabases
<1>2. connecting' \in [Dbs -> BOOLEAN]
  BY Zenon DEF TypeOK, Drop
<1>3. ends' \in [Calls -> Nat]
  BY DEF TypeOK, Drop
<1> QED
  BY <1>1, <1>2, <1>3

\* A new Server has no Databases, and no call has been made.
THEOREM SessionInvInit == Init => SessionInv
  BY SessionAssumption DEF Init, SessionInv, TypeOK, HoldsItsOwn, EndedIffConnecting,
     EndedWasResolved, CallerKnown

\* A call that starts or continues with an adapter of its own (database.ts 74-76).
LEMMA NewAdapterType ==
    ASSUME TypeOK, NEW c \in Calls, NewAdapter(c),
           {sshTunnel', localPort'} \subseteq Calls \cup {None}
    PROVE  /\ pc' \in [Calls -> {"idle", "tunnel", "adapter", "resolved", "rejected", "refused"}]
           /\ adapter' \in [Calls -> {"none", "opening", "open", "failed"}]
           /\ via' \in [Calls -> Calls \cup {None}]
           /\ watch' \in [Calls -> Calls \cup {None}]
           /\ ssh' \in [Calls -> {"none", "waiting", "success", "error"}]
  BY DEF TypeOK, NewAdapter, DialTunnel, WatchTunnel

\* What every step of the system preserves.
THEOREM SessionInvNext == SessionInv /\ [Next]_vars => SessionInv'
<1> SUFFICES ASSUME SessionInv, [Next]_vars PROVE SessionInv'
  OBVIOUS
<1> USE SessionAssumption
<1>type. TypeOK
  BY DEF SessionInv
<1>1. ASSUME NEW k \in Keys, NEW d \in Dbs, CreateConnection(k, d) PROVE SessionInv'
  BY <1>1 DEF SessionInv, TypeOK, HoldsItsOwn, EndedIffConnecting, EndedWasResolved,
     CallerKnown, CreateConnection, callVars, netVars
<1>2. ASSUME NEW d \in Dbs, NEW c \in Calls, ConnectRefused(d, c) PROVE SessionInv'
  BY <1>2 DEF SessionInv, TypeOK, HoldsItsOwn, EndedIffConnecting, EndedWasResolved,
     CallerKnown, ConnectRefused, serverVars, dbVars, netVars
<1>3. ASSUME NEW d \in Dbs, NEW c \in Calls, Connect(d, c) PROVE SessionInv'
  <2> USE <1>3, <1>type
  <2>1. ~connecting[d] /\ pc[c] = "idle" /\ adapter[c] = "none"
    BY DEF Connect, NotInProgress, SessionInv, CallerKnown
  <2>2. /\ UNCHANGED <<databases, dbKey, connection, sshTunnel, localPort, leg>>
        /\ caller' = [caller EXCEPT ![c] = d]
        /\ connecting' = [connecting EXCEPT ![d] = TRUE]
        /\ ends' = [a \in Calls |-> IF connection[d] = a THEN ends[a] + 1 ELSE ends[a]]
    BY DEF Connect, SetFlag, EndPrevious
  <2>3. /\ \A x \in Calls \ {c} : pc'[x] = pc[x] /\ adapter'[x] = adapter[x]
        /\ \/ pc'[c] = "tunnel" /\ adapter'[c] = "none"
           \/ pc'[c] = "adapter" /\ adapter'[c] = "opening"
    BY <2>1 DEF Connect, NewAdapter, TypeOK
  <2>4. TypeOK'
    <3>1. ends' \in [Calls -> Nat]
      BY <2>2 DEF TypeOK
    <3>2. CASE NewAdapter(c) /\ UNCHANGED tunnel
      BY <2>2, <3>1, <3>2, NewAdapterType DEF TypeOK
    <3>3. CASE pc' = [pc EXCEPT ![c] = "tunnel"]
               /\ tunnel' = [tunnel EXCEPT ![c] = "opening"]
               /\ UNCHANGED <<adapter, via, watch, ssh>>
      BY <2>2, <3>1, <3>3 DEF TypeOK
    <3> QED
      BY <3>2, <3>3 DEF Connect
  <2>5. \A e \in Dbs : connection[e] # None => connection[e] \in Calls \ {c}
    BY <2>1 DEF SessionInv, HoldsItsOwn, TypeOK
  <2>6. HoldsItsOwn'
    BY <2>2, <2>3, <2>5 DEF SessionInv, HoldsItsOwn, TypeOK
  <2>7. EndedIffConnecting'
    <3> SUFFICES ASSUME NEW e \in Dbs, connection[e] # None
                 PROVE  ends'[connection[e]] = IF connecting'[e] THEN 1 ELSE 0
      BY <2>2 DEF EndedIffConnecting
    <3>1. CASE e = d
      BY <3>1, <2>1, <2>2, <2>5 DEF SessionInv, EndedIffConnecting, TypeOK
    <3>2. CASE e # d
      <4>1. connection[e] # connection[d]
        BY <3>2 DEF SessionInv, HoldsItsOwn
      <4> QED
        BY <4>1, <3>2, <2>2, <2>5 DEF SessionInv, EndedIffConnecting, TypeOK
    <3> QED
      BY <3>1, <3>2
  <2>8. EndedWasResolved'
    <3> SUFFICES ASSUME NEW a \in Calls
                 PROVE  ends'[a] <= 2 /\ (ends'[a] # 0 => pc'[a] = "resolved")
      BY DEF EndedWasResolved
    <3>1. CASE connection[d] = a
      <4>1. a # c /\ ends[a] = 0 /\ pc[a] = "resolved"
        BY <3>1, <2>1, <2>5 DEF SessionInv, EndedIffConnecting, HoldsItsOwn
      <4> QED
        BY <4>1, <3>1, <2>2, <2>3
    <3>2. CASE connection[d] # a
      <4>1. ends'[a] = ends[a]
        BY <3>2, <2>2
      <4>2. ends[a] # 0 => a # c
        BY <2>1 DEF SessionInv, EndedWasResolved
      <4> QED
        BY <4>1, <4>2, <2>3 DEF SessionInv, EndedWasResolved
    <3> QED
      BY <3>1, <3>2
  <2>9. CallerKnown'
    BY <2>2, <2>3 DEF SessionInv, CallerKnown, TypeOK
  <2> QED
    BY <2>4, <2>6, <2>7, <2>8, <2>9 DEF SessionInv
<1>4. ASSUME NEW d \in Dbs, Disconnect(d) PROVE SessionInv'
  <2>1. /\ Drop({d})
        /\ UNCHANGED <<dbKey, sshTunnel, localPort, pc, caller, adapter, via, watch, ssh, netVars>>
    BY <1>4 DEF Disconnect
  <2>2. TypeOK'
    BY <2>1, <1>type, DropType DEF TypeOK, netVars
  <2>3. HoldsItsOwn' /\ EndedIffConnecting' /\ EndedWasResolved'
    BY <2>1, DropKeeps
  <2>4. CallerKnown'
    BY <2>1 DEF SessionInv, CallerKnown
  <2> QED
    BY <2>2, <2>3, <2>4 DEF SessionInv
<1>5. CASE End
  <2> DEFINE S == {d \in Dbs : Registered(d)}
  <2>1. /\ Drop(S)
        /\ sshTunnel' = None
        /\ tunnel' = [t \in Calls |-> IF t = sshTunnel THEN "closed" ELSE tunnel[t]]
        /\ UNCHANGED <<dbKey, localPort, pc, caller, adapter, via, watch, ssh, leg>>
    BY <1>5 DEF End, DropAll, CloseTunnel
  <2>2. S \in SUBSET Dbs
    OBVIOUS
  <2> HIDE DEF S
  <2>3. TypeOK'
    BY <2>1, <2>2, <1>type, DropType DEF TypeOK
  <2>4. HoldsItsOwn' /\ EndedIffConnecting' /\ EndedWasResolved'
    BY <2>1, <2>2, DropKeeps
  <2>5. CallerKnown'
    BY <2>1 DEF SessionInv, CallerKnown
  <2> QED
    BY <2>3, <2>4, <2>5 DEF SessionInv
<1>6. ASSUME NEW c \in Calls, TunnelOpened(c) PROVE SessionInv'
  <2>1. /\ pc[c] = "tunnel"
        /\ tunnel' = [tunnel EXCEPT ![c] = "listening"]
        /\ sshTunnel' = c /\ localPort' = c
        /\ NewAdapter(c)
        /\ UNCHANGED <<databases, dbKey, connecting, connection, caller, ends, leg>>
    BY <1>6 DEF TunnelOpened, StoreTunnel, dbVars
  <2>2. TypeOK'
    BY <2>1, <1>type, NewAdapterType DEF TypeOK
  <2>3. /\ \A x \in Calls \ {c} : pc'[x] = pc[x] /\ adapter'[x] = adapter[x]
        /\ pc'[c] = "adapter"
    BY <2>1, <1>type DEF NewAdapter, TypeOK
  <2>4. HoldsItsOwn' /\ EndedIffConnecting'
    BY <2>1, <2>3, <1>type DEF SessionInv, HoldsItsOwn, EndedIffConnecting, TypeOK
  <2>5. EndedWasResolved' /\ CallerKnown'
    BY <2>1, <2>3, <1>type DEF SessionInv, EndedWasResolved, CallerKnown, TypeOK
  <2> QED
    BY <2>2, <2>4, <2>5 DEF SessionInv
<1>fail. ASSUME NEW c \in Calls, Pending(c), Fail(c),
                UNCHANGED <<dbKey, sshTunnel, localPort, caller, adapter, via, watch, ssh, leg>>,
                tunnel' \in [Calls -> {"none", "opening", "listening", "closed"}]
         PROVE  SessionInv'
  <2>1. caller[c] \in Dbs /\ Drop({caller[c]}) /\ pc' = [pc EXCEPT ![c] = "rejected"]
    BY <1>fail DEF Fail, SessionInv, CallerKnown, Pending
  <2>2. TypeOK'
    BY <2>1, <1>fail, <1>type, DropType DEF TypeOK
  <2>3. \A x \in Calls : pc[x] = "resolved" => pc'[x] = "resolved"
    BY <2>1, <1>fail, <1>type DEF TypeOK, Pending
  <2>4. HoldsItsOwn' /\ EndedIffConnecting' /\ EndedWasResolved'
    BY <2>1, <2>3, <1>fail, DropKeeps
  <2>5. CallerKnown'
    BY <2>1, <1>fail, <1>type DEF SessionInv, CallerKnown, TypeOK
  <2> QED
    BY <2>2, <2>4, <2>5 DEF SessionInv
<1>7. ASSUME NEW c \in Calls, TunnelFails(c) PROVE SessionInv'
  BY <1>7, <1>fail, <1>type DEF TunnelFails, Pending, TypeOK
<1>8. ASSUME NEW c \in Calls, Resolve(c) PROVE SessionInv'
  <2>1. /\ pc[c] = "adapter" /\ adapter[c] = "open"
        /\ pc' = [pc EXCEPT ![c] = "resolved"]
        /\ connection' = [connection EXCEPT ![caller[c]] = c]
        /\ connecting' = [connecting EXCEPT ![caller[c]] = FALSE]
        /\ UNCHANGED <<databases, sshTunnel, localPort, dbKey, caller, adapter, ends,
                       via, watch, ssh, tunnel, leg>>
    BY <1>8 DEF Resolve, serverVars, netVars
  <2>2. caller[c] \in Dbs /\ ends[c] = 0
    BY <2>1, <1>type DEF SessionInv, CallerKnown, EndedWasResolved, TypeOK
  <2>3. TypeOK'
    BY <2>1, <2>2, <1>type DEF TypeOK
  <2>4. HoldsItsOwn'
    BY <2>1, <2>2, <1>type DEF SessionInv, HoldsItsOwn, TypeOK
  <2>5. EndedIffConnecting'
    <3> SUFFICES ASSUME NEW d \in Dbs, connection'[d] # None
                 PROVE  ends[connection'[d]] = IF connecting'[d] THEN 1 ELSE 0
      BY <2>1 DEF EndedIffConnecting
    <3>1. CASE d = caller[c]
      BY <3>1, <2>1, <2>2, <1>type DEF TypeOK
    <3>2. CASE d # caller[c]
      BY <3>2, <2>1, <2>2, <1>type DEF SessionInv, EndedIffConnecting, TypeOK
    <3> QED
      BY <3>1, <3>2
  <2>6. EndedWasResolved' /\ CallerKnown'
    BY <2>1, <2>2, <1>type DEF SessionInv, EndedWasResolved, CallerKnown, TypeOK
  <2> QED
    BY <2>3, <2>4, <2>5, <2>6 DEF SessionInv
<1>9. ASSUME NEW c \in Calls, Reject(c) PROVE SessionInv'
  BY <1>9, <1>fail, <1>type DEF Reject, Pending, TypeOK, netVars
<1>10. ASSUME NEW c \in Calls,
              Accept(c) \/ Forwarded(c) \/ LegEnds(c) \/ SshError(c) \/ ForwardError(c)
       PROVE SessionInv'
  <2>1. /\ UNCHANGED <<databases, sshTunnel, localPort, dbKey, connecting, connection,
                       pc, caller, adapter, ends, via, watch>>
        /\ leg' \in [Calls -> {"none", "accepted", "up", "broken", "down"}]
        /\ tunnel' \in [Calls -> {"none", "opening", "listening", "closed"}]
        /\ ssh' \in [Calls -> {"none", "waiting", "success", "error"}]
    BY <1>10, <1>type DEF Accept, Forwarded, LegEnds, SshError, ForwardError, Emit, TypeOK,
       serverVars, dbVars, callVars
  <2> QED
    BY <2>1 DEF SessionInv, TypeOK, HoldsItsOwn, EndedIffConnecting, EndedWasResolved,
       CallerKnown
<1>11. ASSUME NEW c \in Calls, DriverOpens(c) \/ DriverFails(c) PROVE SessionInv'
  <2>1. /\ UNCHANGED <<databases, sshTunnel, localPort, dbKey, connecting, connection,
                       pc, caller, ends, via, watch, ssh, tunnel, leg>>
        /\ adapter[c] = "opening"
        /\ adapter' = [adapter EXCEPT ![c] = "open"] \/ adapter' = [adapter EXCEPT ![c] = "failed"]
    BY <1>11 DEF DriverOpens, DriverFails, serverVars, dbVars, netVars
  <2> QED
    BY <2>1 DEF SessionInv, TypeOK, HoldsItsOwn, EndedIffConnecting, EndedWasResolved,
       CallerKnown
<1>12. CASE UNCHANGED vars
  BY <1>12 DEF SessionInv, TypeOK, HoldsItsOwn, EndedIffConnecting, EndedWasResolved,
     CallerKnown, vars, serverVars, dbVars, callVars, netVars
<1> QED
  BY <1>1, <1>2, <1>3, <1>4, <1>5, <1>6, <1>7, <1>8, <1>9, <1>10, <1>11, <1>12 DEF Next

\* SessionInv holds in every reachable state.
THEOREM SessionInvariant == Spec => []SessionInv
  BY SessionInvInit, SessionInvNext, PTL DEF Spec

\* Type correctness.
THEOREM TypeCorrect == Spec => []TypeOK
<1>1. SessionInv => TypeOK
  BY DEF SessionInv
<1> QED
  BY <1>1, SessionInvariant, PTL

\* checkIsConnected() lets through open adapters only (database.ts 40-44).
THEOREM UsableConnectionIsOpen == Spec => []UsableIsOpen
<1>1. SessionInv => UsableIsOpen
  BY DEF SessionInv, HoldsItsOwn, EndedIffConnecting, UsableIsOpen, IsConnected
<1> QED
  BY <1>1, SessionInvariant, PTL

\* No adapter is told to disconnect three times (database.ts 59, 92).
THEOREM NeverEndedThrice == Spec => []EndedAtMostTwice
<1>1. SessionInv => EndedAtMostTwice
  BY DEF SessionInv, EndedWasResolved, EndedAtMostTwice
<1> QED
  BY <1>1, SessionInvariant, PTL
-----------------------------------------------------------------------------
\* sshTunnel and localPort belong together, and there is no tunnel unless the
\* configuration asks for one.
TunnelInv ==
    /\ TypeOK
    /\ sshTunnel # None => localPort = sshTunnel
    /\ ~Ssh => sshTunnel = None /\ \A c \in Calls : pc[c] # "tunnel"
    /\ DialsWhatItWatches

\* The tunnel an adapter dials is the one its connect() watches (database.ts 63-76).
THEOREM DialsAndWatchesTheSame == Spec => []DialsWhatItWatches
<1> USE SessionAssumption
<1>1. Init => TunnelInv
  BY SessionInvInit DEF SessionInv, Init, TunnelInv, DialsWhatItWatches
<1>2. TunnelInv /\ TypeOK' /\ [Next]_vars => TunnelInv'
  <2> SUFFICES ASSUME TunnelInv, TypeOK', [Next]_vars PROVE TunnelInv'
    OBVIOUS
  <2> USE DEF TunnelInv
  <2>1. ASSUME NEW c \in Calls, NewAdapter(c), sshTunnel' # None => localPort' = sshTunnel',
               Ssh <=> sshTunnel' # None
        PROVE  DialsWhatItWatches'
    BY <2>1 DEF NewAdapter, DialTunnel, WatchTunnel, DialsWhatItWatches, TypeOK
  <2>2. ASSUME NEW d \in Dbs, NEW c \in Calls, Connect(d, c) PROVE TunnelInv'
    <3>1. UNCHANGED <<sshTunnel, localPort>>
      BY <2>2 DEF Connect
    <3>2. CASE Ssh /\ sshTunnel = None
      BY <2>2, <3>1, <3>2 DEF Connect, DialsWhatItWatches
    <3>3. CASE ~(Ssh /\ sshTunnel = None)
      <4>1. NewAdapter(c)
        BY <2>2, <3>3 DEF Connect
      <4>2. DialsWhatItWatches'
        BY <2>1, <3>1, <3>3, <4>1
      <4>3. \A x \in Calls : pc'[x] = "tunnel" => pc[x] = "tunnel"
        BY <4>1 DEF NewAdapter, TypeOK
      <4> QED
        BY <3>1, <4>2, <4>3
    <3> QED
      BY <3>2, <3>3
  <2>3. ASSUME NEW c \in Calls, TunnelOpened(c) PROVE TunnelInv'
    <3>1. /\ pc[c] = "tunnel" /\ sshTunnel' = c /\ localPort' = c
          /\ NewAdapter(c)
      BY <2>3 DEF TunnelOpened, StoreTunnel
    <3>2. DialsWhatItWatches'
      BY <2>1, <3>1
    <3> QED
      BY <3>1, <3>2
  <2>4. ASSUME UNCHANGED <<adapter, via, watch>>,
               UNCHANGED sshTunnel \/ sshTunnel' = None,
               UNCHANGED localPort,
               \A x \in Calls : pc'[x] = "tunnel" => pc[x] = "tunnel"
        PROVE  TunnelInv'
    BY <2>4 DEF DialsWhatItWatches
  <2>5. ASSUME NEW c \in Calls, Fail(c)
        PROVE  \A x \in Calls : pc'[x] = "tunnel" => pc[x] = "tunnel"
    BY <2>5 DEF Fail, TypeOK
  <2>6. ASSUME NEW c \in Calls, DriverOpens(c) \/ DriverFails(c) PROVE TunnelInv'
    BY <2>6 DEF DriverOpens, DriverFails, DialsWhatItWatches, TypeOK, serverVars
  <2>7. ASSUME NEW k \in Keys, NEW d \in Dbs, CreateConnection(k, d) PROVE TunnelInv'
    BY <2>7, <2>4 DEF CreateConnection, callVars
  <2>8. ASSUME NEW d \in Dbs, NEW c \in Calls, ConnectRefused(d, c) PROVE TunnelInv'
    BY <2>8, <2>4 DEF ConnectRefused, serverVars, TypeOK
  <2>9. ASSUME NEW d \in Dbs, Disconnect(d) PROVE TunnelInv'
    BY <2>9, <2>4 DEF Disconnect
  <2>10. CASE End
    BY <2>10, <2>4 DEF End, CloseTunnel
  <2>11. ASSUME NEW c \in Calls, TunnelFails(c) \/ Reject(c) PROVE TunnelInv'
    BY <2>11, <2>4, <2>5 DEF TunnelFails, Reject
  <2>12. ASSUME NEW c \in Calls, Resolve(c) PROVE TunnelInv'
    BY <2>12, <2>4 DEF Resolve, serverVars, TypeOK
  <2>13. ASSUME NEW c \in Calls,
                Accept(c) \/ Forwarded(c) \/ LegEnds(c) \/ SshError(c) \/ ForwardError(c)
         PROVE TunnelInv'
    BY <2>13, <2>4 DEF Accept, Forwarded, LegEnds, SshError, ForwardError, serverVars, callVars
  <2>14. CASE UNCHANGED vars
    BY <2>14, <2>4 DEF vars, serverVars, callVars
  <2> QED
    BY <2>2, <2>3, <2>6, <2>7, <2>8, <2>9, <2>10, <2>11, <2>12, <2>13, <2>14 DEF Next
<1>3. TunnelInv => DialsWhatItWatches
  BY DEF TunnelInv
<1> QED
  BY <1>1, <1>2, <1>3, TypeCorrect, PTL DEF Spec

-----------------------------------------------------------------------------
(* The tunnel that the Server keeps, and what a pending call waits for.    *)

\* Calls of connect() come one after the other.
InTurn == \A c1, c2 \in Calls : Pending(c1) /\ Pending(c2) => c1 = c2

\* A call that opens a tunnel has found none, and none has come since.
SoleTunnel ==
    /\ ListeningIsKept
    /\ \A c \in Calls : pc[c] = "tunnel" => sshTunnel = None

LEMMA SoleTunnelNext ==
    ASSUME TypeOK, InTurn, SoleTunnel, [Next]_vars
    PROVE  SoleTunnel'
<1> USE SessionAssumption
<1>1. ASSUME sshTunnel' = sshTunnel,
             \A t \in Calls : tunnel'[t] = "listening" => tunnel[t] = "listening",
             \A x \in Calls : pc'[x] = "tunnel" => pc[x] = "tunnel" \/ sshTunnel = None
      PROVE  SoleTunnel'
  BY <1>1 DEF SoleTunnel, ListeningIsKept
<1>2. ASSUME NEW d \in Dbs, NEW c \in Calls, Connect(d, c) PROVE SoleTunnel'
  <2>1. CASE Ssh /\ sshTunnel = None
    BY <1>1, <1>2, <2>1 DEF Connect, TypeOK
  <2>2. CASE ~(Ssh /\ sshTunnel = None)
    BY <1>1, <1>2, <2>2 DEF Connect, NewAdapter, TypeOK
  <2> QED BY <2>1, <2>2
<1>3. ASSUME NEW c \in Calls, TunnelOpened(c) PROVE SoleTunnel'
  <2>1. pc[c] = "tunnel" /\ sshTunnel = None /\ sshTunnel' = c
    BY <1>3 DEF TunnelOpened, StoreTunnel, SoleTunnel
  <2>2. \A t \in Calls : tunnel[t] # "listening"
    BY <2>1 DEF ListeningIsKept, SoleTunnel
  <2>3. \A t \in Calls : tunnel'[t] = "listening" => t = c
    BY <1>3, <2>2 DEF TunnelOpened, TypeOK
  <2>4. \A x \in Calls : pc'[x] # "tunnel"
    BY <1>3, <2>1 DEF TunnelOpened, NewAdapter, InTurn, Pending, TypeOK
  <2> QED BY <2>1, <2>3, <2>4 DEF ListeningIsKept, SoleTunnel
<1>4. ASSUME NEW c \in Calls, TunnelFails(c) \/ Reject(c) PROVE SoleTunnel'
  BY <1>1, <1>4 DEF TunnelFails, Reject, Fail, netVars, TypeOK
<1>5. ASSUME NEW c \in Calls, Resolve(c) PROVE SoleTunnel'
  BY <1>1, <1>5 DEF Resolve, serverVars, netVars, TypeOK
<1>6. CASE End
  <2>1. sshTunnel' = None
    BY <1>6 DEF End, CloseTunnel
  <2>2. \A t \in Calls : tunnel'[t] = "listening" => tunnel[t] = "listening" /\ t # sshTunnel
    BY <1>6 DEF End, CloseTunnel
  <2> QED BY <2>1, <2>2 DEF SoleTunnel, ListeningIsKept
<1>7. ASSUME NEW d \in Dbs, Disconnect(d) PROVE SoleTunnel'
  BY <1>1, <1>7 DEF Disconnect, netVars
<1>8. ASSUME NEW k \in Keys, NEW d \in Dbs, CreateConnection(k, d) PROVE SoleTunnel'
  BY <1>1, <1>8 DEF CreateConnection, callVars, netVars
<1>9. ASSUME NEW d \in Dbs, NEW c \in Calls, ConnectRefused(d, c) PROVE SoleTunnel'
  BY <1>1, <1>9 DEF ConnectRefused, serverVars, netVars, TypeOK
<1>10. ASSUME NEW c \in Calls, Accept(c) \/ Forwarded(c) \/ LegEnds(c) \/ SshError(c)
       PROVE  SoleTunnel'
  BY <1>1, <1>10 DEF Accept, Forwarded, LegEnds, SshError, serverVars, callVars
<1>11. ASSUME NEW c \in Calls, ForwardError(c) PROVE SoleTunnel'
  BY <1>1, <1>11 DEF ForwardError, serverVars, TypeOK
<1>12. ASSUME NEW c \in Calls, DriverOpens(c) \/ DriverFails(c) PROVE SoleTunnel'
  BY <1>1, <1>12 DEF DriverOpens, DriverFails, serverVars, netVars
<1>13. CASE UNCHANGED vars
  BY <1>1, <1>13 DEF vars, serverVars, callVars, netVars
<1> QED BY <1>2, <1>3, <1>4, <1>5, <1>6, <1>7, <1>8, <1>9, <1>10, <1>11, <1>12, <1>13 DEF Next

\* As long as calls of connect() come one after the other, of whichever Databases, the
\* Server keeps every tunnel that listens, so that end() can close it: two calls under
\* way at once are the only way to lose one (database.ts 62-65).
THEOREM OneTunnelInTurn == Spec /\ []InTurn => []ListeningIsKept
<1>1. Init => SoleTunnel
  BY DEF Init, SoleTunnel, ListeningIsKept
<1>2. TypeOK /\ InTurn /\ SoleTunnel /\ [Next]_vars => SoleTunnel'
  BY SoleTunnelNext
<1>3. SoleTunnel => ListeningIsKept
  BY DEF SoleTunnel
<1> QED
  BY <1>1, <1>2, <1>3, TypeCorrect, PTL DEF Spec

\* Where an adapter's leg has got to, what handleSSHError() has heard, and what the
\* driver could do with it.
LegsInOrder ==
    \A c \in Calls :
        /\ adapter[c] = "none" => leg[c] = "none" /\ pc[c] # "adapter"
        /\ leg[c] # "none" => via[c] # None
        /\ leg[c] \in {"up", "broken", "down"} => ssh[c] # "waiting"
        /\ adapter[c] = "open" /\ via[c] # None => leg[c] \in {"up", "broken", "down"}
        /\ adapter[c] # "none" => (watch[c] = None <=> ssh[c] = "none")

LEMMA LegsNext ==
    ASSUME TypeOK, CallerKnown, DialsWhatItWatches, LegsInOrder, [Next]_vars
    PROVE  LegsInOrder'
<1> USE SessionAssumption
<1>1. ASSUME UNCHANGED <<adapter, leg, via, watch, ssh>>,
             \A x \in Calls : pc'[x] = "adapter" => pc[x] = "adapter"
      PROVE  LegsInOrder'
  BY <1>1 DEF LegsInOrder
<1>2. ASSUME NEW c \in Calls, NewAdapter(c), adapter[c] = "none", UNCHANGED leg
      PROVE  LegsInOrder'
  BY <1>2 DEF LegsInOrder, NewAdapter, DialTunnel, WatchTunnel, TypeOK
<1>3. ASSUME NEW d \in Dbs, NEW c \in Calls, Connect(d, c) PROVE LegsInOrder'
  <2>1. CASE Ssh /\ sshTunnel = None
    BY <1>1, <1>3, <2>1 DEF Connect, TypeOK
  <2>2. CASE ~(Ssh /\ sshTunnel = None)
    <3>1. NewAdapter(c) /\ UNCHANGED leg /\ pc[c] = "idle"
      BY <1>3, <2>2 DEF Connect
    <3> QED BY <1>2, <3>1 DEF CallerKnown
  <2> QED BY <2>1, <2>2
<1>4. ASSUME NEW c \in Calls, TunnelOpened(c) PROVE LegsInOrder'
  <2>1. NewAdapter(c) /\ UNCHANGED leg /\ pc[c] = "tunnel"
    BY <1>4 DEF TunnelOpened
  <2> QED BY <1>2, <2>1 DEF CallerKnown
<1>5. ASSUME NEW c \in Calls, TunnelFails(c) \/ Reject(c) PROVE LegsInOrder'
  BY <1>1, <1>5 DEF TunnelFails, Reject, Fail, netVars, TypeOK
<1>6. ASSUME NEW c \in Calls, Resolve(c) PROVE LegsInOrder'
  BY <1>1, <1>6 DEF Resolve, netVars, TypeOK
<1>7. CASE End
  BY <1>1, <1>7 DEF End
<1>8. ASSUME NEW d \in Dbs, Disconnect(d) PROVE LegsInOrder'
  BY <1>1, <1>8 DEF Disconnect, netVars
<1>9. ASSUME NEW k \in Keys, NEW d \in Dbs, CreateConnection(k, d) PROVE LegsInOrder'
  BY <1>1, <1>9 DEF CreateConnection, callVars, netVars
<1>10. ASSUME NEW d \in Dbs, NEW c \in Calls, ConnectRefused(d, c) PROVE LegsInOrder'
  BY <1>1, <1>10 DEF ConnectRefused, netVars, TypeOK
<1>11. ASSUME NEW c \in Calls, Accept(c) PROVE LegsInOrder'
  BY <1>11 DEF Accept, LegsInOrder, callVars, TypeOK
<1>12. ASSUME NEW c \in Calls, LegEnds(c) PROVE LegsInOrder'
  BY <1>12 DEF LegEnds, LegsInOrder, callVars, TypeOK
<1>13. ASSUME NEW c \in Calls, NEW e \in {"success", "error"}, Emit(via[c], e), leg[c] # "none",
              UNCHANGED <<adapter, pc, via, watch>>,
              \A x \in Calls \ {c} : leg'[x] = leg[x],
              leg'[c] # leg[c] => leg'[c] \in {"up", "broken", "down"}
       PROVE  LegsInOrder'
  <2>1. adapter[c] # "none" /\ via[c] = watch[c]
    BY <1>13 DEF LegsInOrder, DialsWhatItWatches
  <2>2. /\ ssh'[c] # "waiting"
        /\ \A x \in Calls : /\ ssh'[x] = "waiting" => ssh[x] = "waiting"
                            /\ ssh'[x] = "none" <=> ssh[x] = "none"
    BY <1>13, <2>1 DEF Emit, TypeOK
  <2> QED BY <1>13, <2>1, <2>2 DEF LegsInOrder
<1>14. ASSUME NEW c \in Calls, Forwarded(c) PROVE LegsInOrder'
  BY <1>13, <1>14 DEF Forwarded, Forwardable, TypeOK
<1>15. ASSUME NEW c \in Calls, SshError(c) PROVE LegsInOrder'
  BY <1>13, <1>15 DEF SshError, TypeOK
<1>16. ASSUME NEW c \in Calls, ForwardError(c) PROVE LegsInOrder'
  BY <1>13, <1>16 DEF ForwardError, Forwardable, TypeOK
<1>17. ASSUME NEW c \in Calls, DriverOpens(c) \/ DriverFails(c) PROVE LegsInOrder'
  BY <1>17 DEF DriverOpens, DriverFails, LegsInOrder, netVars, TypeOK
<1>18. CASE UNCHANGED vars
  BY <1>1, <1>18 DEF vars, callVars, netVars
<1> QED BY <1>3, <1>4, <1>5, <1>6, <1>7, <1>8, <1>9, <1>10, <1>11, <1>12, <1>14, <1>15, <1>16,
           <1>17, <1>18 DEF Next

\* What a pending call waits for is owed to it: the guards of the actions that are fair.
Owed(c) ==
    \/ pc[c] = "tunnel"
    \/ leg[c] = "accepted"
    \/ adapter[c] = "opening" /\ leg[c] \in {"none", "up", "down"}
    \/ adapter[c] = "open" /\ ssh[c] \in {"none", "success"}
    \/ Fails(c)

\* A pending connect() waits for something that is owed to it, whatever callers, tunnel
\* and other calls have done, unless it is stranded: listen(), an SSH client, a driver
\* that can talk or be refused, or the end of its own await (database.ts 46-86).
THEOREM PendingIsOwed == Spec => [](\A c \in Calls : Pending(c) => Owed(c) \/ Stranded(c))
<1>1. Init => LegsInOrder
  BY DEF Init, LegsInOrder
<1>2. SessionInv /\ DialsWhatItWatches /\ LegsInOrder /\ [Next]_vars => LegsInOrder'
  BY LegsNext DEF SessionInv
<1>3. SessionInv /\ DialsWhatItWatches /\ LegsInOrder
        => \A c \in Calls : Pending(c) => Owed(c) \/ Stranded(c)
  <2> SUFFICES ASSUME SessionInv, DialsWhatItWatches, LegsInOrder, NEW c \in Calls, Pending(c)
               PROVE  Owed(c) \/ Stranded(c)
    OBVIOUS
  <2>1. CASE adapter[c] = "open"
    BY <2>1 DEF LegsInOrder, DialsWhatItWatches, Owed, Fails, SessionInv, TypeOK
  <2>2. CASE adapter[c] = "opening"
    BY <2>2 DEF LegsInOrder, DialsWhatItWatches, Owed, Stranded, Fails, SessionInv, TypeOK
  <2>3. CASE adapter[c] \notin {"open", "opening"}
    BY <2>3 DEF LegsInOrder, Owed, Fails, Pending, SessionInv, TypeOK
  <2> QED BY <2>1, <2>2, <2>3
<1> QED
  BY <1>1, <1>2, <1>3, SessionInvariant, DialsAndWatchesTheSame, PTL DEF Spec

-----------------------------------------------------------------------------
(* When callers are patient, ~MayInterrupt, and when they also follow the *)
(* Server, ~MayReuse: what resolved is owned, end() leaves nothing         *)
(* connected, and the Server keeps the contract.                           *)

\* A pending call is why its Database is connecting, and it is the only one.
PendingIsConnecting == \A c \in Calls : Pending(c) => connecting[caller[c]]

PatientInv ==
    /\ SessionInv
    /\ PendingIsConnecting
    /\ OneAttemptPerDatabase
    /\ ResolvedIsOwned

\* Dropping Databases no other call is working on (database.ts 79-97).
LEMMA DropPatient ==
    ASSUME PatientInv, NEW S \in SUBSET Dbs, Drop(S), UNCHANGED caller,
           \A x \in Calls : pc'[x] = pc[x] \/ pc'[x] = "rejected",
           \A x \in Calls : pc'[x] = pc[x] /\ Pending(x) => caller[x] \notin S
    PROVE  PendingIsConnecting' /\ OneAttemptPerDatabase' /\ ResolvedIsOwned'
<1> USE DEF PatientInv
<1>1. \A x \in Calls : Pending(x)' => Pending(x) /\ pc'[x] = pc[x]
  BY DEF Pending
<1>2. PendingIsConnecting'
  <2> SUFFICES ASSUME NEW x \in Calls, Pending(x)' PROVE connecting'[caller[x]]
    BY DEF PendingIsConnecting
  <2>1. caller[x] \in Dbs /\ caller[x] \notin S /\ connecting[caller[x]]
    BY <1>1 DEF PendingIsConnecting, SessionInv, CallerKnown, Pending
  <2> QED
    BY <2>1, Zenon DEF Drop
<1>3. OneAttemptPerDatabase'
  BY <1>1 DEF OneAttemptPerDatabase
<1>4. ResolvedIsOwned'
  <2> SUFFICES ASSUME NEW x \in Calls, pc'[x] = "resolved", ends'[x] = 0
               PROVE  connection'[caller[x]] = x
    BY DEF ResolvedIsOwned
  <2>1. pc[x] = "resolved" /\ caller[x] \in Dbs
    BY DEF SessionInv, CallerKnown
  <2>2. ends[x] = 0 /\ ~\E d \in S : connection[d] = x
    BY DEF Drop, SessionInv, TypeOK
  <2>3. connection[caller[x]] = x
    BY <2>1, <2>2 DEF ResolvedIsOwned
  <2> QED
    BY <2>1, <2>2, <2>3 DEF Drop
<1> QED
  BY <1>2, <1>3, <1>4

\* Every step of a patient caller preserves PatientInv.
THEOREM PatientNext ==
    ASSUME ~MayInterrupt, PatientInv, SessionInv', [Next]_vars
    PROVE  PatientInv'
<1> USE SessionAssumption DEF PatientInv
<1>type. TypeOK
  BY DEF SessionInv
<1>same. ASSUME UNCHANGED <<connecting, connection, pc, caller, ends>> PROVE PatientInv'
  BY <1>same DEF PendingIsConnecting, OneAttemptPerDatabase, ResolvedIsOwned, Pending
<1>1. ASSUME NEW k \in Keys, NEW d \in Dbs, CreateConnection(k, d) PROVE PatientInv'
  BY <1>1, <1>same DEF CreateConnection, callVars
<1>2. ASSUME NEW d \in Dbs, NEW c \in Calls, ConnectRefused(d, c) PROVE PatientInv'
  BY <1>2, <1>type DEF ConnectRefused, dbVars, PendingIsConnecting, OneAttemptPerDatabase,
     ResolvedIsOwned, Pending, TypeOK
<1>3. ASSUME NEW d \in Dbs, NEW c \in Calls, Connect(d, c) PROVE PatientInv'
  <2> USE <1>type
  <2>1. /\ ~connecting[d] /\ pc[c] = "idle"
        /\ caller' = [caller EXCEPT ![c] = d]
        /\ connecting' = [connecting EXCEPT ![d] = TRUE]
        /\ ends' = [a \in Calls |-> IF connection[d] = a THEN ends[a] + 1 ELSE ends[a]]
        /\ UNCHANGED connection
    BY <1>3 DEF Connect, NotInProgress, SetFlag, EndPrevious
  <2>2. /\ \A x \in Calls \ {c} : pc'[x] = pc[x] /\ caller'[x] = caller[x]
        /\ pc'[c] \in {"tunnel", "adapter"} /\ caller'[c] = d
    BY <1>3, <2>1 DEF Connect, NewAdapter, TypeOK
  <2>3. \A x \in Calls \ {c} : Pending(x)' => Pending(x) /\ caller[x] # d
    BY <2>1, <2>2 DEF Pending, PendingIsConnecting
  <2>4. PendingIsConnecting'
    <3> SUFFICES ASSUME NEW x \in Calls, Pending(x)' PROVE connecting'[caller'[x]]
      BY DEF PendingIsConnecting
    <3>1. CASE x = c
      BY <3>1, <2>1, <2>2 DEF TypeOK
    <3>2. CASE x # c
      <4>1. caller'[x] = caller[x] /\ caller[x] # d /\ connecting[caller[x]]
        BY <3>2, <2>2, <2>3 DEF PendingIsConnecting
      <4>2. caller[x] \in Dbs
        BY <3>2, <2>3 DEF SessionInv, CallerKnown, Pending
      <4> QED
        BY <4>1, <4>2, <2>1 DEF TypeOK
    <3> QED
      BY <3>1, <3>2
  <2>5. OneAttemptPerDatabase'
    BY <2>2, <2>3 DEF OneAttemptPerDatabase
  <2>6. ResolvedIsOwned'
    <3> SUFFICES ASSUME NEW x \in Calls, pc'[x] = "resolved", ends'[x] = 0
                 PROVE  connection[caller'[x]] = x
      BY <2>1 DEF ResolvedIsOwned
    <3>1. x # c /\ pc[x] = "resolved" /\ caller'[x] = caller[x]
      BY <2>2
    <3>2. ends[x] = 0
      BY <2>1 DEF TypeOK
    <3> QED
      BY <3>1, <3>2 DEF ResolvedIsOwned
  <2> QED
    BY <2>4, <2>5, <2>6
<1>4. ASSUME NEW d \in Dbs, Disconnect(d) PROVE PatientInv'
  <2>1. Drop({d}) /\ ~connecting[d] /\ UNCHANGED <<pc, caller>>
    BY <1>4 DEF Disconnect, Quiet
  <2> QED
    BY <2>1, DropPatient DEF PendingIsConnecting
<1>5. CASE End
  <2> DEFINE S == {d \in Dbs : Registered(d)}
  <2>1. Drop(S) /\ (\A d \in Dbs : ~connecting[d]) /\ UNCHANGED <<pc, caller>>
    BY <1>5 DEF End, DropAll, Quiet
  <2>2. S \in SUBSET Dbs
    OBVIOUS
  <2> HIDE DEF S
  <2>3. \A x \in Calls : Pending(x) => caller[x] \notin S
    BY <2>1, <2>2 DEF PendingIsConnecting
  <2> QED
    BY <2>1, <2>2, <2>3, DropPatient
<1>fail. ASSUME NEW c \in Calls, Pending(c), Fail(c), UNCHANGED caller PROVE PatientInv'
  <2>1. Drop({caller[c]}) /\ pc' = [pc EXCEPT ![c] = "rejected"] /\ caller[c] \in Dbs
    BY <1>fail DEF Fail, SessionInv, CallerKnown, Pending
  <2>2. \A x \in Calls : pc'[x] = pc[x] /\ Pending(x) => caller[x] # caller[c]
    BY <2>1, <1>fail, <1>type DEF OneAttemptPerDatabase, Pending, TypeOK
  <2>3. \A x \in Calls : pc'[x] = pc[x] \/ pc'[x] = "rejected"
    BY <2>1, <1>type DEF TypeOK
  <2> QED
    BY <2>1, <2>2, <2>3, <1>fail, DropPatient
<1>6. ASSUME NEW c \in Calls, TunnelOpened(c) PROVE PatientInv'
  <2>1. /\ pc[c] = "tunnel" /\ pc' = [pc EXCEPT ![c] = "adapter"]
        /\ UNCHANGED <<connecting, connection, caller, ends>>
    BY <1>6 DEF TunnelOpened, NewAdapter, dbVars
  <2> QED
    BY <2>1, <1>type DEF PendingIsConnecting, OneAttemptPerDatabase, ResolvedIsOwned,
       Pending, TypeOK
<1>7. ASSUME NEW c \in Calls, TunnelFails(c) PROVE PatientInv'
  BY <1>7, <1>fail DEF TunnelFails, Pending
<1>8. ASSUME NEW c \in Calls, Resolve(c) PROVE PatientInv'
  <2> USE <1>type
  <2>1. /\ pc[c] = "adapter"
        /\ pc' = [pc EXCEPT ![c] = "resolved"]
        /\ connection' = [connection EXCEPT ![caller[c]] = c]
        /\ connecting' = [connecting EXCEPT ![caller[c]] = FALSE]
        /\ UNCHANGED <<caller, ends>>
    BY <1>8 DEF Resolve
  <2>2. Pending(c) /\ caller[c] \in Dbs /\ connecting[caller[c]]
    BY <2>1 DEF Pending, SessionInv, CallerKnown, PendingIsConnecting
  <2>3. \A x \in Calls : Pending(x)' => Pending(x) /\ x # c /\ caller[x] # caller[c]
    BY <2>1, <2>2 DEF Pending, OneAttemptPerDatabase, TypeOK
  <2>4. PendingIsConnecting' /\ OneAttemptPerDatabase'
    <3>1. \A x \in Calls : Pending(x) => caller[x] \in Dbs
      BY DEF SessionInv, CallerKnown, Pending
    <3> QED
      BY <2>1, <2>3, <3>1 DEF PendingIsConnecting, OneAttemptPerDatabase, TypeOK
  <2>5. ResolvedIsOwned'
    <3> SUFFICES ASSUME NEW x \in Calls, pc'[x] = "resolved", ends[x] = 0
                 PROVE  connection'[caller[x]] = x
      BY <2>1 DEF ResolvedIsOwned
    <3>1. CASE x = c
      BY <3>1, <2>1, <2>2 DEF TypeOK
    <3>2. CASE x # c
      <4>1. pc[x] = "resolved" /\ connection[caller[x]] = x /\ caller[x] \in Dbs
        BY <3>2, <2>1 DEF ResolvedIsOwned, TypeOK, SessionInv, CallerKnown
      <4>2. ~connecting[caller[x]]
        BY <4>1 DEF SessionInv, EndedIffConnecting
      <4> QED
        BY <4>1, <4>2, <2>1, <2>2 DEF TypeOK
    <3> QED
      BY <3>1, <3>2
  <2> QED
    BY <2>4, <2>5
<1>9. ASSUME NEW c \in Calls, Reject(c) PROVE PatientInv'
  BY <1>9, <1>fail DEF Reject, Pending
<1>10. ASSUME NEW c \in Calls,
              Accept(c) \/ Forwarded(c) \/ LegEnds(c) \/ SshError(c) \/ ForwardError(c)
                \/ DriverOpens(c) \/ DriverFails(c)
       PROVE PatientInv'
  BY <1>10, <1>same DEF Accept, Forwarded, LegEnds, SshError, ForwardError,
                           DriverOpens, DriverFails, dbVars, callVars
<1>11. CASE UNCHANGED vars
  BY <1>11, <1>same DEF vars, dbVars, callVars
<1> QED
  BY <1>1, <1>2, <1>3, <1>4, <1>5, <1>6, <1>7, <1>8, <1>9, <1>10, <1>11 DEF Next

\* PatientInv holds in every reachable state when callers are patient.
THEOREM PatientInvariant == ASSUME ~MayInterrupt PROVE Spec => []PatientInv
<1>1. Init => PatientInv
  BY SessionInvInit DEF Init, PatientInv, PendingIsConnecting, OneAttemptPerDatabase,
     ResolvedIsOwned, Pending
<1>2. PatientInv /\ SessionInv' /\ [Next]_vars => PatientInv'
  BY PatientNext
<1> QED
  BY <1>1, <1>2, SessionInvariant, PTL DEF Spec

\* A Database never has two connect() under way (database.ts 48-52).
THEOREM OneAttempt == ASSUME ~MayInterrupt PROVE Spec => []OneAttemptPerDatabase
<1>1. PatientInv => OneAttemptPerDatabase
  BY DEF PatientInv
<1> QED
  BY <1>1, PatientInvariant, PTL

\* No established adapter is out of reach (database.ts 58-78).
THEOREM ResolvedStaysOwned == ASSUME ~MayInterrupt PROVE Spec => []ResolvedIsOwned
<1>1. PatientInv => ResolvedIsOwned
  BY DEF PatientInv
<1> QED
  BY <1>1, PatientInvariant, PTL
-----------------------------------------------------------------------------
\* Without a tunnel, Promise.all is rejected by the adapter only.
DirectInv ==
    /\ sshTunnel = None
    /\ \A c \in Calls :
         /\ pc[c] # "tunnel" /\ ssh[c] = "none"
         /\ pc[c] \in {"refused", "rejected"} => adapter[c] \in {"none", "failed"}

LEMMA DirectNext ==
    ASSUME ~Ssh, SessionInv, DirectInv, [Next]_vars
    PROVE  DirectInv'
<1> USE SessionAssumption
<1>type. TypeOK
  BY DEF SessionInv
<1>same. ASSUME UNCHANGED <<sshTunnel, pc, adapter, ssh>> PROVE DirectInv'
  BY <1>same DEF DirectInv
<1>1. ASSUME NEW k \in Keys, NEW d \in Dbs, CreateConnection(k, d) PROVE DirectInv'
  BY <1>1, <1>same DEF CreateConnection, callVars
<1>2. ASSUME NEW d \in Dbs, NEW c \in Calls, ConnectRefused(d, c) PROVE DirectInv'
  BY <1>2, <1>type DEF ConnectRefused, serverVars, DirectInv, SessionInv, CallerKnown, TypeOK
<1>3. ASSUME NEW d \in Dbs, NEW c \in Calls, Connect(d, c) PROVE DirectInv'
  <2>1. NewAdapter(c) /\ UNCHANGED sshTunnel
    BY <1>3 DEF Connect
  <2> QED
    BY <2>1, <1>type DEF NewAdapter, WatchTunnel, DirectInv, TypeOK
<1>4. ASSUME NEW d \in Dbs, Disconnect(d) PROVE DirectInv'
  BY <1>4, <1>same DEF Disconnect
<1>5. CASE End
  BY <1>5 DEF End, CloseTunnel, DirectInv
<1>6. ASSUME NEW c \in Calls, TunnelOpened(c) \/ TunnelFails(c) PROVE DirectInv'
  BY <1>6 DEF TunnelOpened, TunnelFails, DirectInv
<1>7. ASSUME NEW c \in Calls, Resolve(c) PROVE DirectInv'
  BY <1>7, <1>type DEF Resolve, serverVars, DirectInv, TypeOK
<1>8. ASSUME NEW c \in Calls, Reject(c) PROVE DirectInv'
  <2>1. adapter[c] = "failed"
    BY <1>8 DEF Reject, Fails, DirectInv
  <2> QED
    BY <1>8, <2>1, <1>type DEF Reject, Fail, DirectInv, TypeOK
<1>9. ASSUME NEW c \in Calls, Accept(c) \/ LegEnds(c) PROVE DirectInv'
  BY <1>9, <1>same DEF Accept, LegEnds, serverVars, callVars
<1>10. ASSUME NEW c \in Calls, Forwarded(c) \/ SshError(c) \/ ForwardError(c) PROVE DirectInv'
  BY <1>10 DEF Forwarded, SshError, ForwardError, Emit, serverVars, DirectInv
<1>11. ASSUME NEW c \in Calls, DriverOpens(c) \/ DriverFails(c) PROVE DirectInv'
  BY <1>11, <1>type DEF DriverOpens, DriverFails, serverVars, DirectInv, TypeOK
<1>12. CASE UNCHANGED vars
  BY <1>12, <1>same DEF vars, serverVars, callVars
<1> QED
  BY <1>1, <1>2, <1>3, <1>4, <1>5, <1>6, <1>7, <1>8, <1>9, <1>10, <1>11, <1>12 DEF Next

\* Without a tunnel no adapter that is open is out of reach: a rejected connect() leaves
\* none behind, and that of a resolved one stays with its Database until it is told to
\* disconnect (database.ts 76-82).
THEOREM OpenStaysOwned == ASSUME ~MayInterrupt, ~Ssh PROVE Spec => []OpenIsOwned
<1>1. Init => DirectInv
  BY DEF Init, DirectInv
<1>2. SessionInv /\ DirectInv /\ [Next]_vars => DirectInv'
  BY DirectNext
<1>3. PatientInv /\ DirectInv => OpenIsOwned
  <2> SUFFICES ASSUME PatientInv, DirectInv, NEW c \in Calls, adapter[c] = "open", ends[c] = 0
               PROVE  Pending(c) \/ connection[caller[c]] = c
    BY DEF OpenIsOwned
  <2>1. pc[c] \in {"adapter", "resolved"}
    BY DEF PatientInv, SessionInv, CallerKnown, TypeOK, DirectInv
  <2> QED
    BY <2>1 DEF Pending, PatientInv, ResolvedIsOwned
<1> QED
  BY <1>1, <1>2, <1>3, SessionInvariant, PatientInvariant, PTL DEF Spec
-----------------------------------------------------------------------------
\* What the Server holds under a name has that name, and a Database that is
\* connecting or connected is held.
NamesAgree == \A k \in Keys : databases[k] # None => dbKey[databases[k]] = k

LiveIsRegistered ==
    \A d \in Dbs : connecting[d] \/ connection[d] # None => Registered(d)

LiveInv == PatientInv /\ NamesAgree /\ LiveIsRegistered

\* Dropping registered Databases closes them, and them only, in the terms of the
\* contract (server.ts 83-88, database.ts 88-97).
LEMMA DropLive ==
    ASSUME LiveInv, NEW S \in SUBSET Dbs, \A d \in S : Registered(d),
           Drop(S), UNCHANGED dbKey
    PROVE  /\ NamesAgree' /\ LiveIsRegistered'
           /\ \A d \in Dbs : Registered(d)' <=> Registered(d) /\ d \notin S
           /\ databases' = [k \in Keys |-> IF databases[k] \in S THEN None ELSE databases[k]]
<1> USE SessionAssumption DEF LiveInv, PatientInv
<1>type. TypeOK
  BY DEF SessionInv
<1>1. \A k \in Keys : databases[k] \in S <=> \E d \in S : dbKey[d] = k
  BY <1>type DEF NamesAgree, Registered, TypeOK
<1>2. databases' = [k \in Keys |-> IF databases[k] \in S THEN None ELSE databases[k]]
  BY <1>1 DEF Drop, RemoveDatabases
<1>3. \A d \in Dbs : Registered(d)' <=> Registered(d) /\ d \notin S
  BY <1>2, <1>type DEF Registered, TypeOK
<1>4. NamesAgree'
  BY <1>2 DEF NamesAgree
<1>5. LiveIsRegistered'
  <2> SUFFICES ASSUME NEW d \in Dbs, connecting'[d] \/ connection'[d] # None
               PROVE  Registered(d)'
    BY DEF LiveIsRegistered
  <2>1. d \notin S /\ connection'[d] = connection[d]
    BY Zenon DEF Drop
  <2>2. connecting'[d] => connecting[d]
    BY Zenon DEF Drop
  <2> QED
    BY <1>3, <2>1, <2>2 DEF LiveIsRegistered
<1> QED
  BY <1>2, <1>3, <1>4, <1>5

\* DbState without the values "lost" and "leaked".
Life(d) ==
    IF dbKey[d] = None THEN "unborn"
    ELSE IF ~Registered(d) THEN "closed"
    ELSE IF connecting[d] THEN "connecting"
    ELSE IF connection[d] = None THEN "idle" ELSE "ready"

\* In the states of LiveInv, before and after a step, these values do not occur.
LEMMA StateIs == ASSUME LiveInv, NEW d \in Dbs PROVE DbState(d) = Life(d)
<1>1. ~Registered(d) => ~connecting[d] /\ connection[d] = None
  BY DEF LiveInv, LiveIsRegistered
<1>2. ~connecting[d] /\ connection[d] # None
        => adapter[connection[d]] = "open" /\ ends[connection[d]] = 0
  BY DEF LiveInv, PatientInv, SessionInv, HoldsItsOwn, EndedIffConnecting
<1> QED
  BY <1>1, <1>2 DEF DbState, Life, Registered

LEMMA StateIsNext == ASSUME LiveInv', NEW d \in Dbs PROVE DbState(d)' = Life(d)'
<1>1. ~Registered(d)' => ~connecting'[d] /\ connection'[d] = None
  BY DEF LiveInv, LiveIsRegistered
<1>2. ~connecting'[d] /\ connection'[d] # None
        => adapter'[connection'[d]] = "open" /\ ends'[connection'[d]] = 0
  BY DEF LiveInv, PatientInv, SessionInv, HoldsItsOwn, EndedIffConnecting
<1> QED
  BY <1>1, <1>2 DEF DbState, Life, Registered

\* The guards of the four steps of Next that drop Databases, as sets of them.
LEMMA DropSteps ==
    ASSUME LiveInv, ~MayInterrupt, ~MayReuse
    PROVE  /\ \A d \in Dbs : Disconnect(d) =>
                /\ Registered(d) /\ ~connecting[d] /\ Drop({d}) /\ UNCHANGED dbKey
           /\ \A c \in Calls : TunnelFails(c) \/ Reject(c) =>
                /\ caller[c] \in Dbs /\ Registered(caller[c]) /\ connecting[caller[c]]
                /\ Drop({caller[c]}) /\ UNCHANGED dbKey
           /\ End => /\ Drop({d \in Dbs : Registered(d)}) /\ UNCHANGED dbKey
                     /\ \A d \in Dbs : ~connecting[d]
<1>1. \A d \in Dbs : Disconnect(d) =>
        /\ Registered(d) /\ ~connecting[d] /\ Drop({d}) /\ UNCHANGED dbKey
  BY DEF Disconnect, Usable, Quiet
<1>2. ASSUME NEW c \in Calls, TunnelFails(c) \/ Reject(c)
      PROVE  /\ caller[c] \in Dbs /\ Registered(caller[c]) /\ connecting[caller[c]]
             /\ Drop({caller[c]}) /\ UNCHANGED dbKey
  <2>1. Pending(c) /\ Drop({caller[c]}) /\ UNCHANGED dbKey
    BY <1>2 DEF TunnelFails, Reject, Fail, Pending
  <2>2. caller[c] \in Dbs /\ connecting[caller[c]]
    BY <2>1 DEF LiveInv, PatientInv, SessionInv, CallerKnown, PendingIsConnecting, Pending
  <2> QED
    BY <2>1, <2>2 DEF LiveInv, LiveIsRegistered
<1>3. End => /\ Drop({d \in Dbs : Registered(d)}) /\ UNCHANGED dbKey
             /\ \A d \in Dbs : ~connecting[d]
  BY DEF End, DropAll, Quiet
<1> QED
  BY <1>1, <1>2, <1>3

\* The steps of Next that neither create nor drop a Database.
Other ==
    \/ \E d \in Dbs, c \in Calls : ConnectRefused(d, c)
    \/ \E c \in Calls : TunnelOpened(c)
    \/ \E c \in Calls : Accept(c) \/ Forwarded(c) \/ LegEnds(c) \/ SshError(c) \/ ForwardError(c)
    \/ \E c \in Calls : DriverOpens(c) \/ DriverFails(c)
    \/ UNCHANGED vars

LEMMA OtherKeeps ==
    Other => UNCHANGED <<databases, dbKey, connecting, connection>>
  BY DEF Other, ConnectRefused, TunnelOpened, Accept, Forwarded, LegEnds, SshError, ForwardError,
     DriverOpens, DriverFails, vars, serverVars, dbVars

\* Every step of callers who follow the Server preserves LiveInv.
THEOREM LiveNext ==
    ASSUME ~MayInterrupt, ~MayReuse, LiveInv, PatientInv', [Next]_vars
    PROVE  LiveInv'
<1> USE SessionAssumption DEF LiveInv
<1>type. TypeOK
  BY DEF PatientInv, SessionInv
<1>drop. ASSUME NEW S \in SUBSET Dbs, \A d \in S : Registered(d), Drop(S), UNCHANGED dbKey
         PROVE  LiveInv'
  BY <1>drop, DropLive
<1>1. ASSUME NEW k \in Keys, NEW d \in Dbs, CreateConnection(k, d) PROVE LiveInv'
  <2>1. /\ databases[k] = None /\ dbKey[d] = None
        /\ databases' = [databases EXCEPT ![k] = d]
        /\ dbKey' = [dbKey EXCEPT ![d] = k]
        /\ UNCHANGED <<connecting, connection>>
    BY <1>1 DEF CreateConnection
  <2>2. \A j \in Keys : databases[j] # d
    BY <2>1, <1>type DEF NamesAgree, TypeOK
  <2>3. NamesAgree'
    BY <2>1, <2>2, <1>type DEF NamesAgree, TypeOK
  <2>4. \A e \in Dbs : Registered(e) => Registered(e)'
    BY <2>1, <1>type DEF Registered, TypeOK
  <2> QED
    BY <2>1, <2>3, <2>4 DEF LiveIsRegistered
<1>2. ASSUME NEW d \in Dbs, NEW c \in Calls, Connect(d, c) PROVE LiveInv'
  <2>1. /\ Registered(d)
        /\ connecting' = [connecting EXCEPT ![d] = TRUE]
        /\ UNCHANGED <<databases, dbKey, connection>>
    BY <1>2 DEF Connect, Usable, SetFlag
  <2> QED
    BY <2>1, <1>type DEF NamesAgree, LiveIsRegistered, Registered, TypeOK
<1>3. ASSUME NEW c \in Calls, Resolve(c) PROVE LiveInv'
  <2>1. /\ caller[c] \in Dbs /\ Registered(caller[c])
        /\ connection' = [connection EXCEPT ![caller[c]] = c]
        /\ connecting' = [connecting EXCEPT ![caller[c]] = FALSE]
        /\ UNCHANGED <<databases, dbKey>>
    BY <1>3 DEF Resolve, serverVars, PatientInv, PendingIsConnecting, Pending, SessionInv,
       CallerKnown, LiveIsRegistered
  <2> QED
    BY <2>1, <1>type DEF NamesAgree, LiveIsRegistered, Registered, TypeOK
<1>4. ASSUME NEW d \in Dbs, Disconnect(d) PROVE LiveInv'
  BY <1>4, <1>drop, DropSteps
<1>5. ASSUME NEW c \in Calls, TunnelFails(c) \/ Reject(c) PROVE LiveInv'
  BY <1>5, <1>drop, DropSteps
<1>6. CASE End
  BY <1>6, <1>drop, DropSteps
<1>7. CASE Other
  BY <1>7, OtherKeeps DEF NamesAgree, LiveIsRegistered, Registered
<1> QED
  BY <1>1, <1>2, <1>3, <1>4, <1>5, <1>6, <1>7 DEF Next, Other

\* For callers who follow the Server, a Database that is connecting or connected is in the
\* registry, under its own name.
THEOREM LiveInvariant == ASSUME ~MayInterrupt, ~MayReuse PROVE Spec => []LiveInv
<1>1. Init => NamesAgree /\ LiveIsRegistered
  BY SessionAssumption DEF Init, NamesAgree, LiveIsRegistered
<1>2. LiveInv /\ PatientInv' /\ [Next]_vars => LiveInv'
  BY LiveNext
<1>3. PatientInv /\ NamesAgree /\ LiveIsRegistered <=> LiveInv
  BY DEF LiveInv
<1> QED
  BY <1>1, <1>2, <1>3, PatientInvariant, PTL DEF Spec

\* After end() no Database has a connection, as server.ts 57 says, when callers
\* neither interrupt a connect() nor reuse a forgotten Database.
THEOREM EndDisconnects ==
    ASSUME ~MayInterrupt, ~MayReuse PROVE Spec => EndDisconnectsEveryDatabase
<1>1. LiveInv /\ [Next]_vars => [End => \A d \in Dbs : connection'[d] = None]_vars
  <2> SUFFICES ASSUME LiveInv, End, NEW d \in Dbs PROVE connection'[d] = None
    OBVIOUS
  <2>1. Drop({e \in Dbs : Registered(e)})
    BY DropSteps
  <2> QED
    BY <2>1 DEF Drop, LiveInv, LiveIsRegistered
<1> QED
  BY <1>1, LiveInvariant, PTL DEF Spec, EndDisconnectsEveryDatabase

\* A step of the contract is known by what it does to databases and to Life.
LEMMA StepRefines ==
    ASSUME ~MayInterrupt, ~MayReuse, LiveInv, LiveInv', [Next]_vars
    PROVE  [Contract!Next]_(Contract!vars)
<1> USE SessionAssumption
<1> DEFINE state == [d \in Dbs |-> DbState(d)]
           after == [d \in Dbs |-> DbState(d)']
<1>type. TypeOK
  BY DEF LiveInv, PatientInv, SessionInv
<1>now. state = [d \in Dbs |-> Life(d)]
  BY StateIs
<1>next. after = [d \in Dbs |-> Life(d)']
  BY StateIsNext
<1>1. ASSUME NEW k \in Keys, NEW d \in Dbs, CreateConnection(k, d) PROVE Contract!Create(k, d)
  <2>1. /\ databases[k] = None /\ dbKey[d] = None
        /\ databases' = [databases EXCEPT ![k] = d]
        /\ dbKey' = [dbKey EXCEPT ![d] = k]
        /\ UNCHANGED <<connecting, connection>>
    BY <1>1 DEF CreateConnection
  <2>2. ~connecting[d] /\ connection[d] = None
    BY <2>1 DEF LiveInv, LiveIsRegistered, Registered
  <2>3. Life(d) = "unborn" /\ Life(d)' = "idle"
    BY <2>1, <2>2, <1>type DEF Life, Registered, TypeOK
  <2>4. \A e \in Dbs \ {d} : Life(e)' = Life(e)
    BY <2>1, <1>type DEF Life, Registered, TypeOK
  <2>5. after = [state EXCEPT ![d] = "idle"]
    BY <2>3, <2>4, <1>now, <1>next
  <2> QED
    BY <2>1, <2>3, <2>5, <1>now DEF Contract!Create
<1>2. ASSUME NEW d \in Dbs, NEW c \in Calls, Connect(d, c) PROVE Contract!Begin(d)
  <2>1. /\ dbKey[d] # None /\ Registered(d) /\ ~connecting[d]
        /\ connecting' = [connecting EXCEPT ![d] = TRUE]
        /\ UNCHANGED <<databases, dbKey, connection>>
    BY <1>2 DEF Connect, Usable, NotInProgress, SetFlag
  <2>2. Life(d) \in {"idle", "ready"} /\ Life(d)' = "connecting"
    BY <2>1, <1>type DEF Life, Registered, TypeOK
  <2>3. \A e \in Dbs \ {d} : Life(e)' = Life(e)
    BY <2>1, <1>type DEF Life, Registered, TypeOK
  <2>4. after = [state EXCEPT ![d] = "connecting"]
    BY <2>2, <2>3, <1>now, <1>next
  <2> QED
    BY <2>1, <2>2, <2>4, <1>now DEF Contract!Begin
<1>3. ASSUME NEW c \in Calls, Resolve(c) PROVE Contract!Succeed(caller[c])
  <2>1. PICK d \in Dbs :
          /\ d = caller[c] /\ connecting[d] /\ Registered(d)
          /\ connection' = [connection EXCEPT ![d] = c]
          /\ connecting' = [connecting EXCEPT ![d] = FALSE]
          /\ UNCHANGED <<databases, dbKey>>
    BY <1>3 DEF Resolve, serverVars, LiveInv, PatientInv, PendingIsConnecting, Pending,
       SessionInv, CallerKnown, LiveIsRegistered
  <2>2. Life(d) = "connecting" /\ Life(d)' = "ready"
    BY <2>1, <1>type DEF Life, Registered, TypeOK
  <2>3. \A e \in Dbs \ {d} : Life(e)' = Life(e)
    BY <2>1, <1>type DEF Life, Registered, TypeOK
  <2>4. after = [state EXCEPT ![d] = "ready"]
    BY <2>2, <2>3, <1>now, <1>next
  <2>5. Contract!Succeed(d)
    BY <2>1, <2>2, <2>4, <1>now DEF Contract!Succeed
  <2> QED
    BY <2>1, <2>5
<1>drop. ASSUME NEW S \in SUBSET Dbs, \A d \in S : Registered(d), Drop(S), UNCHANGED dbKey
         PROVE  Contract!Close(S)
  <2>1. /\ \A d \in Dbs : Registered(d)' <=> Registered(d) /\ d \notin S
        /\ databases' = [k \in Keys |-> IF databases[k] \in S THEN None ELSE databases[k]]
    BY <1>drop, DropLive
  <2>2. \A d \in S : Life(d)' = "closed"
    BY <1>drop, <2>1 DEF Life, Registered
  <2>3. \A d \in Dbs \ S : connecting'[d] = connecting[d] /\ connection'[d] = connection[d]
    <3>1. \A d \in Dbs \ S : connection'[d] = connection[d]
      BY <1>drop DEF Drop
    <3>2. connecting \in [Dbs -> BOOLEAN] /\ connecting' \in [Dbs -> BOOLEAN]
      BY <1>type, <1>drop, DropType DEF TypeOK
    <3>3. \A d \in Dbs \ S : connecting'[d] <=> connecting[d]
      BY <1>drop, Zenon DEF Drop
    <3> QED
      BY <3>1, <3>2, <3>3
  <2>4. \A d \in Dbs \ S : Life(d)' = Life(d)
    BY <1>drop, <2>1, <2>3 DEF Life
  <2>5. after = [d \in Dbs |-> IF d \in S THEN "closed" ELSE state[d]]
    BY <2>2, <2>4, <1>now, <1>next
  <2> QED
    BY <2>1, <2>5 DEF Contract!Close
<1>4. ASSUME NEW d \in Dbs, Disconnect(d) PROVE Contract!Disconnect(d)
  <2>1. Registered(d) /\ ~connecting[d] /\ Drop({d}) /\ UNCHANGED dbKey
    BY <1>4, DropSteps
  <2>2. Life(d) \in {"idle", "ready"}
    BY <2>1 DEF Life, Registered
  <2>3. Contract!Close({d})
    BY <2>1, <1>drop
  <2> QED
    BY <2>2, <2>3, <1>now DEF Contract!Disconnect
<1>5. ASSUME NEW c \in Calls, TunnelFails(c) \/ Reject(c) PROVE Contract!Fail(caller[c])
  <2>1. /\ caller[c] \in Dbs /\ Registered(caller[c]) /\ connecting[caller[c]]
        /\ Drop({caller[c]}) /\ UNCHANGED dbKey
    BY <1>5, DropSteps
  <2>2. Life(caller[c]) = "connecting"
    BY <2>1 DEF Life, Registered
  <2>3. Contract!Close({caller[c]})
    BY <2>1, <1>drop
  <2> QED
    BY <2>1, <2>2, <2>3, <1>now DEF Contract!Fail
<1>6. CASE End
  <2> DEFINE S == {d \in Dbs : Registered(d)}
  <2>1. Drop(S) /\ UNCHANGED dbKey /\ \A d \in Dbs : ~connecting[d]
    BY <1>6, DropSteps
  <2>2. Contract!Close(S)
    BY <2>1, <1>drop
  <2>3. \A d \in Dbs : Life(d) # "connecting" /\ (Life(d) \in {"idle", "ready"} <=> d \in S)
    BY <2>1 DEF Life, Registered
  <2>4. S = {d \in Dbs : state[d] \in {"idle", "ready"}}
    BY <2>3, <1>now
  <2> QED
    BY <2>2, <2>3, <2>4, <1>now DEF Contract!EndAll, Contract!Next
<1>7. ASSUME Other PROVE UNCHANGED Contract!vars
  <2>1. UNCHANGED <<databases, dbKey, connecting, connection>>
    BY <1>7, OtherKeeps
  <2>2. \A d \in Dbs : Life(d)' = Life(d)
    BY <2>1 DEF Life, Registered
  <2>3. after = state
    BY <2>2, <1>now, <1>next
  <2> QED
    BY <2>1, <2>3 DEF Contract!vars
<1>8. ASSUME NEW c \in Calls, Pending(c) PROVE caller[c] \in Dbs
  BY <1>8 DEF LiveInv, PatientInv, SessionInv, CallerKnown, Pending
<1> QED
  BY <1>1, <1>2, <1>3, <1>4, <1>5, <1>6, <1>7, <1>8
     DEF Next, Other, Contract!Next, Pending, TunnelFails, Reject, Resolve

\* The Server keeps the contract, for callers who neither interrupt a connect()
\* nor reuse a forgotten Database (server.ts 52-88, database.ts 46-97).
THEOREM KeepsContract == ASSUME ~MayInterrupt, ~MayReuse PROVE Spec => ContractSpec
<1>1. Init => Contract!Init
  BY DEF Init, Contract!Init, DbState, Registered
<1>2. LiveInv /\ LiveInv' /\ [Next]_vars => [Contract!Next]_(Contract!vars)
  BY StepRefines
<1> QED
  BY <1>1, <1>2, LiveInvariant, PTL DEF Spec, ContractSpec, Contract!Spec
=============================================================================
