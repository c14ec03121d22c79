------------------------- MODULE DatabaseApi_proofs -------------------------
(***************************************************************************)
(* Proofs about DatabaseApi, for any Keys, Dbs, Calls and Ops.  Operations *)
(* do not disturb the session, so what ServerSession_proofs shows of it    *)
(* holds of whatever an operation finds in `connection`.                   *)
(***************************************************************************)
EXTENDS DatabaseApi, ServerSession_proofs

\* A call that has not been made has reached nothing.
OpsType ==
    /\ kind \in [Ops -> Guarded \cup Unguarded \cup {None}]
    /\ on \in [Ops -> Dbs \cup {None}]
    /\ reached \in [Ops -> Calls \cup {None}]
    /\ answer \in [Ops -> {"none", "waiting", "given", "rejected", "no connection", "TypeError"}]
    /\ \A o \in Ops : answer[o] = "none" => reached[o] = None

\* What checkIsConnected() lets through, and what it would have refused: an adapter that
\* has been told to disconnect belongs to a Database that connects again.
LEMMA ConnectionIsOpen ==
    ASSUME SessionInv, NEW d \in Dbs, connection[d] # None
    PROVE  /\ connection[d] \in Calls
           /\ adapter[connection[d]] = "open"
           /\ ends[connection[d]] > 0 => connecting[d]
  BY DEF SessionInv, TypeOK, HoldsItsOwn, EndedIffConnecting

LEMMA OpsTypeNext ==
    ASSUME SessionInv, OpsType, [ApiNext]_apiVars
    PROVE  OpsType'
<1>1. ASSUME UNCHANGED opVars PROVE OpsType'
  BY <1>1 DEF opVars, OpsType
<1>2. ASSUME NEW d \in Dbs, NEW o \in Ops, NEW k \in Guarded \cup Unguarded,
             Refuse(d, o, k) \/ Forward(d, o, k) \/ ForwardUnchecked(d, o, k)
      PROVE  OpsType'
  <2>1. connection[d] \in Calls \cup {None}
    BY DEF SessionInv, TypeOK
  <2> QED BY <1>2, <2>1 DEF Refuse, Forward, ForwardUnchecked, Called, OpsType
<1>3. ASSUME NEW o \in Ops, Answer(o) \/ AnswerFails(o) PROVE OpsType'
  BY <1>3 DEF Answer, AnswerFails, OpsType
<1> QED BY <1>1, <1>2, <1>3 DEF ApiNext, Operate, apiVars

\* The session is not disturbed by operations.
LEMMA ApiInv == ApiSpec => [](SessionInv /\ OpsType)
<1>1. ApiInit => SessionInv /\ OpsType
  BY SessionInvInit DEF ApiInit, OpsType
<1>2. SessionInv /\ OpsType /\ [ApiNext]_apiVars => SessionInv' /\ OpsType'
  <2> SUFFICES ASSUME SessionInv, OpsType, [ApiNext]_apiVars PROVE SessionInv'
    BY OpsTypeNext
  <2>1. [Next]_vars
    BY DEF ApiNext, Operate, Refuse, Forward, ForwardUnchecked, Called, Answer, AnswerFails,
       apiVars
  <2> QED BY <2>1, SessionInvNext
<1> QED BY <1>1, <1>2, PTL DEF ApiSpec

\* Whatever is connected, disconnected and ended meanwhile, an operation is executed by an
\* adapter that has connected; one that has been told to disconnect is reached only by the
\* operations without checkIsConnected(), while their Database connects again.
THEOREM ReachOpen == ApiSpec => OperationsReachOpen
<1> DEFINE Good(o) ==
      reached'[o] # reached[o] =>
          /\ adapter[reached'[o]] = "open"
          /\ ends[reached'[o]] > 0 => kind'[o] \in Unguarded /\ connecting[on'[o]]
<1>1. ASSUME SessionInv, OpsType, [ApiNext]_apiVars PROVE \A o \in Ops : Good(o)
  <2>1. ASSUME UNCHANGED reached PROVE \A o \in Ops : Good(o)
    BY <2>1
  <2>2. ASSUME NEW d \in Dbs, NEW o \in Ops, NEW k \in Guarded \cup Unguarded,
               Forward(d, o, k) \/ ForwardUnchecked(d, o, k)
        PROVE  \A x \in Ops : Good(x)
    <3>1. /\ reached' = [reached EXCEPT ![o] = connection[d]]
          /\ kind' = [kind EXCEPT ![o] = k]
          /\ on' = [on EXCEPT ![o] = d]
          /\ answer[o] = "none"
      BY <2>2 DEF Forward, ForwardUnchecked, Called
    <3>2. /\ reached'[o] = connection[d] /\ kind'[o] = k /\ on'[o] = d /\ reached[o] = None
          /\ \A x \in Ops \ {o} : reached'[x] = reached[x]
      BY <1>1, <3>1 DEF OpsType
    <3>3. CASE connection[d] = None
      BY <3>2, <3>3
    <3>4. CASE connection[d] # None /\ Forward(d, o, k)
      <4>1. ~connecting[d]
        BY <3>4 DEF Forward, IsConnected
      <4> QED BY <1>1, <3>2, <3>4, <4>1, ConnectionIsOpen
    <3>5. CASE connection[d] # None /\ ForwardUnchecked(d, o, k)
      <4>1. k \in Unguarded
        BY <3>5 DEF ForwardUnchecked
      <4> QED BY <1>1, <3>2, <3>5, <4>1, ConnectionIsOpen
    <3> QED BY <2>2, <3>3, <3>4, <3>5
  <2> QED
    BY <1>1, <2>1, <2>2 DEF ApiNext, Operate, Refuse, Answer, AnswerFails, apiVars, opVars
<1>2. SessionInv /\ OpsType /\ [ApiNext]_apiVars
        => [\A o \in Ops : Good(o)]_apiVars
  BY <1>1
<1> QED BY <1>2, ApiInv, PTL DEF ApiSpec, OperationsReachOpen

-----------------------------------------------------------------------------
\* While callers are patient, a Database changes or loses its connection only after or
\* while the adapter in it is told to disconnect, and what is told once stays told.
LEMMA LosesOnlyEnded ==
    ASSUME PatientInv, [Next]_vars
    PROVE  /\ \A d \in Dbs : connection[d] # None =>
                connection'[d] = connection[d] \/ ends'[connection[d]] > 0
           /\ \A c \in Calls : ends[c] > 0 => ends'[c] > 0
<1> USE SessionAssumption
<1> DEFINE Keeps == /\ \A d \in Dbs : connection[d] # None =>
                         connection'[d] = connection[d] \/ ends'[connection[d]] > 0
                    /\ \A c \in Calls : ends[c] > 0 => ends'[c] > 0
<1>type. TypeOK
  BY DEF PatientInv, SessionInv
<1>same. ASSUME UNCHANGED <<connection, ends>> PROVE Keeps
  BY <1>same
<1>drop. ASSUME NEW S \in SUBSET Dbs, Drop(S) PROVE Keeps
  <2>1. \A c \in Calls : ends[c] \in Nat /\ (ends'[c] = ends[c] \/ ends'[c] = ends[c] + 1)
    BY <1>drop, <1>type DEF Drop, TypeOK
  <2>2. ASSUME NEW d \in S, connection[d] # None PROVE ends'[connection[d]] > 0
    <3>1. connection[d] \in Calls
      BY <2>2, <1>type DEF TypeOK
    <3> QED
      BY <1>drop, <1>type, <3>1 DEF Drop, TypeOK
  <2>3. \A d \in Dbs \ S : connection'[d] = connection[d]
    BY <1>drop DEF Drop
  <2> QED
    BY <2>1, <2>2, <2>3
<1>1. ASSUME NEW k \in Keys, NEW d \in Dbs, CreateConnection(k, d) PROVE Keeps
  BY <1>1, <1>same DEF CreateConnection, callVars
<1>2. ASSUME NEW d \in Dbs, NEW c \in Calls, ConnectRefused(d, c) PROVE Keeps
  BY <1>2, <1>same DEF ConnectRefused, dbVars
<1>3. ASSUME NEW d \in Dbs, NEW c \in Calls, Connect(d, c) PROVE Keeps
  <2>1. EndPrevious(d) /\ UNCHANGED connection
    BY <1>3 DEF Connect
  <2> QED
    BY <2>1, <1>type DEF EndPrevious, TypeOK
<1>4. ASSUME NEW d \in Dbs, Disconnect(d) PROVE Keeps
  <2>1. Drop({d}) /\ {d} \in SUBSET Dbs
    BY <1>4 DEF Disconnect
  <2> QED
    BY <2>1, <1>drop
<1>5. CASE End
  BY <1>5, <1>drop DEF End, DropAll
<1>6. ASSUME NEW c \in Calls, Pending(c), Fail(c) PROVE Keeps
  <2>1. Drop({caller[c]}) /\ {caller[c]} \in SUBSET Dbs
    BY <1>6 DEF Fail, PatientInv, SessionInv, CallerKnown, Pending
  <2> QED
    BY <2>1, <1>drop
<1>7. ASSUME NEW c \in Calls, TunnelOpened(c) PROVE Keeps
  BY <1>7, <1>same DEF TunnelOpened, dbVars
<1>8. ASSUME NEW c \in Calls, Resolve(c) PROVE Keeps
  <2>1. /\ connection' = [connection EXCEPT ![caller[c]] = c]
        /\ UNCHANGED ends
    BY <1>8 DEF Resolve
  <2>2. caller[c] \in Dbs /\ connecting[caller[c]]
    BY <1>8 DEF Resolve, PatientInv, SessionInv, CallerKnown, PendingIsConnecting, Pending
  <2>3. connection[caller[c]] # None => ends[connection[caller[c]]] > 0
    BY <2>2 DEF PatientInv, SessionInv, EndedIffConnecting
  <2> QED
    BY <2>1, <2>3, <1>type DEF TypeOK
<1>9. ASSUME NEW c \in Calls, TunnelFails(c) \/ Reject(c) PROVE Keeps
  BY <1>9, <1>6 DEF TunnelFails, Reject, Pending
<1>10. ASSUME NEW c \in Calls,
              Accept(c) \/ Forwarded(c) \/ LegEnds(c) \/ SshError(c) \/ ForwardError(c)
                \/ DriverOpens(c) \/ DriverFails(c)
       PROVE Keeps
  BY <1>10, <1>same DEF Accept, Forwarded, LegEnds, SshError, ForwardError,
                           DriverOpens, DriverFails, dbVars, callVars
<1>11. CASE UNCHANGED vars
  BY <1>11, <1>same DEF vars, dbVars, callVars
<1> QED
  BY <1>1, <1>2, <1>3, <1>4, <1>5, <1>7, <1>8, <1>9, <1>10, <1>11 DEF Next

\* A script that waits for its columns waits for the adapter its Database still has, or
\* for one that has been told to disconnect.
ScriptsAwaitTheirs ==
    \A o \in Ops : kind[o] = "script" /\ answer[o] \in {"waiting", "TypeError"} =>
        /\ on[o] \in Dbs /\ reached[o] \in Calls
        /\ connection[on[o]] = reached[o] \/ ends[reached[o]] > 0

LEMMA ScriptsNext ==
    ASSUME PatientInv, OpsType, ScriptsAwaitTheirs, ScriptsLoseTheirAdapter, [ApiNext]_apiVars
    PROVE  ScriptsAwaitTheirs' /\ ScriptsLoseTheirAdapter'
<1> USE SessionAssumption DEF OpsType
<1>1. ASSUME NEW d \in Dbs, NEW o \in Ops, NEW k \in Guarded \cup Unguarded,
             Refuse(d, o, k) \/ Forward(d, o, k) \/ ForwardUnchecked(d, o, k)
      PROVE  ScriptsAwaitTheirs' /\ ScriptsLoseTheirAdapter'
  <2>1. /\ answer[o] = "none" /\ UNCHANGED <<connection, ends>>
        /\ kind' = [kind EXCEPT ![o] = k] /\ on' = [on EXCEPT ![o] = d]
    BY <1>1 DEF Refuse, Forward, ForwardUnchecked, Called, vars, dbVars, callVars
  <2>2. \A x \in Ops \ {o} : /\ kind'[x] = kind[x] /\ on'[x] = on[x]
                              /\ reached'[x] = reached[x] /\ answer'[x] = answer[x]
    BY <1>1, <2>1 DEF Refuse, Forward, ForwardUnchecked
  <2>3. kind'[o] = k /\ on'[o] = d
    BY <2>1
  <2>4. CASE Refuse(d, o, k)
    BY <2>1, <2>2, <2>4 DEF Refuse, ScriptsAwaitTheirs, ScriptsLoseTheirAdapter
  <2>5. CASE Forward(d, o, k)
    <3>1. /\ reached'[o] = connection[d] /\ answer'[o] = "waiting"
          /\ connection[d] \in Calls
      BY <2>5 DEF Forward, IsConnected, PatientInv, SessionInv, TypeOK
    <3> QED
      BY <2>1, <2>2, <2>3, <3>1 DEF ScriptsAwaitTheirs, ScriptsLoseTheirAdapter
  <2>6. CASE ForwardUnchecked(d, o, k)
    <3>1. k # "script"
      BY <2>6 DEF ForwardUnchecked, Unguarded
    <3> QED
      BY <2>1, <2>2, <2>3, <3>1 DEF ScriptsAwaitTheirs, ScriptsLoseTheirAdapter
  <2> QED
    BY <1>1, <2>4, <2>5, <2>6
<1>2. ASSUME NEW o \in Ops, Answer(o) \/ AnswerFails(o)
      PROVE  ScriptsAwaitTheirs' /\ ScriptsLoseTheirAdapter'
  <2>1. /\ answer[o] = "waiting"
        /\ UNCHANGED <<connection, ends, kind, on, reached>>
        /\ answer' = [answer EXCEPT ![o] = answer'[o]]
        /\ answer'[o] = "TypeError" => kind[o] = "script" /\ connection[on[o]] = None
        /\ answer'[o] # "waiting"
    BY <1>2 DEF Answer, AnswerFails, vars, dbVars, callVars
  <2>2. \A x \in Ops \ {o} : answer'[x] = answer[x]
    BY <2>1
  <2>3. ASSUME answer'[o] = "TypeError" PROVE ends[reached[o]] > 0
    <3>1. kind[o] = "script" /\ answer[o] = "waiting" /\ connection[on[o]] = None
      BY <2>1, <2>3
    <3>2. reached[o] \in Calls /\ (connection[on[o]] = reached[o] \/ ends[reached[o]] > 0)
      BY <3>1 DEF ScriptsAwaitTheirs
    <3> QED
      BY <3>1, <3>2
  <2> QED
    BY <2>1, <2>2, <2>3 DEF ScriptsAwaitTheirs, ScriptsLoseTheirAdapter
<1>3. ASSUME [Next]_vars, UNCHANGED opVars
      PROVE  ScriptsAwaitTheirs' /\ ScriptsLoseTheirAdapter'
  <2>1. UNCHANGED <<kind, on, reached, answer>>
    BY <1>3 DEF opVars
  <2>2. ScriptsAwaitTheirs'
    <3> SUFFICES ASSUME NEW o \in Ops, kind[o] = "script", answer[o] \in {"waiting", "TypeError"}
                 PROVE  /\ on[o] \in Dbs /\ reached[o] \in Calls
                        /\ connection'[on[o]] = reached[o] \/ ends'[reached[o]] > 0
      BY <2>1 DEF ScriptsAwaitTheirs
    <3>1. /\ on[o] \in Dbs /\ reached[o] \in Calls
          /\ connection[on[o]] = reached[o] \/ ends[reached[o]] > 0
      BY DEF ScriptsAwaitTheirs
    <3> QED
      BY <1>3, <3>1, LosesOnlyEnded
  <2>3. ScriptsLoseTheirAdapter'
    BY <1>3, <2>1, LosesOnlyEnded DEF ScriptsLoseTheirAdapter, ScriptsAwaitTheirs
  <2> QED
    BY <2>2, <2>3
<1> QED
  BY <1>1, <1>2, <1>3 DEF ApiNext, Operate, apiVars

\* A script fails on a missing connection only if the adapter it asked for the columns has
\* been told to disconnect since, by a disconnect(), by end(), or by a second connect()
\* that failed (database.ts 59, 81 and 88-97).
THEOREM ScriptsLoseOnlyEnded == ASSUME ~MayInterrupt PROVE ApiSpec => []ScriptsLoseTheirAdapter
<1>1. ApiInit => PatientInv /\ ScriptsAwaitTheirs /\ ScriptsLoseTheirAdapter
  <2> SUFFICES ASSUME ApiInit PROVE PatientInv /\ ScriptsAwaitTheirs /\ ScriptsLoseTheirAdapter
    OBVIOUS
  <2>1. PatientInv
    BY SessionInvInit DEF ApiInit, Init, PatientInv, PendingIsConnecting, OneAttemptPerDatabase,
       ResolvedIsOwned, Pending
  <2> QED
    BY <2>1 DEF ApiInit, ScriptsAwaitTheirs, ScriptsLoseTheirAdapter
<1>2. SessionInv' /\ PatientInv /\ [ApiNext]_apiVars => PatientInv'
  <2> SUFFICES ASSUME SessionInv', PatientInv, [ApiNext]_apiVars PROVE PatientInv'
    OBVIOUS
  <2>1. [Next]_vars
    BY DEF ApiNext, Operate, Refuse, Forward, ForwardUnchecked, Called, Answer, AnswerFails,
       apiVars
  <2> QED BY <2>1, PatientNext
<1>3. PatientInv /\ OpsType /\ ScriptsAwaitTheirs /\ ScriptsLoseTheirAdapter /\ [ApiNext]_apiVars
        => ScriptsAwaitTheirs' /\ ScriptsLoseTheirAdapter'
  BY ScriptsNext
<1> QED BY <1>1, <1>2, <1>3, ApiInv, PTL DEF ApiSpec
=============================================================================
