---------------------------- MODULE DatabaseApi -----------------------------
(***************************************************************************)
(* The operations of a Database on its connection, database.ts 99-274,     *)
(* among the connect(), disconnect() and end() of ServerSession.           *)
(*                                                                         *)
(* They are all forwarded to the adapter in `connection`.  Most ask        *)
(* checkIsConnected() first; truncateAllTables() and                       *)
(* getTableDeleteScript() do not.  The scripts of SELECT, INSERT and       *)
(* UPDATE wait for the columns of the table, and then look `connection` up *)
(* again to quote the names.                                               *)
(***************************************************************************)
EXTENDS ServerSession

CONSTANT Ops            \* calls of operations

VARIABLES
    kind,               \* what is called
    on,                 \* the Database it is called on
    reached,            \* the adapter that executes it
    answer              \* how far it is

opVars  == <<kind, on, reached, answer>>
apiVars == <<vars, opVars>>

Guarded   == {"statement", "script"}
Unguarded == {"truncate", "delete script"}

Called(d, o, k) ==
    /\ Usable(d) /\ answer[o] = "none"
    /\ kind' = [kind EXCEPT ![o] = k]
    /\ on' = [on EXCEPT ![o] = d]
    /\ UNCHANGED vars

\* checkIsConnected() throws.
Refuse(d, o, k) ==
    /\ Called(d, o, k) /\ k \in Guarded /\ ~IsConnected(d)
    /\ answer' = [answer EXCEPT ![o] = "no connection"]
    /\ UNCHANGED reached

\* The query, the catalogue operation, or the listTableColumns() of a script.
Forward(d, o, k) ==
    /\ Called(d, o, k) /\ k \in Guarded /\ IsConnected(d)
    /\ reached' = [reached EXCEPT ![o] = connection[d]]
    /\ answer' = [answer EXCEPT ![o] = "waiting"]

\* truncateAllTables(), and getTableDeleteScript() that needs no answer.
ForwardUnchecked(d, o, k) ==
    /\ Called(d, o, k) /\ k \in Unguarded
    /\ reached' = [reached EXCEPT ![o] = connection[d]]
    /\ answer' = [answer EXCEPT ![o] = IF connection[d] = None THEN "TypeError"
                                       ELSE IF k = "truncate" THEN "waiting" ELSE "given"]

\* The adapter has answered; wrap() of a script finds the connection of now, or none.
Answer(o) ==
    /\ answer[o] = "waiting"
    /\ answer' = [answer EXCEPT ![o] = IF kind[o] = "script" /\ connection[on[o]] = None
                                       THEN "TypeError" ELSE "given"]
    /\ UNCHANGED <<vars, kind, on, reached>>

\* The adapter has rejected.
AnswerFails(o) ==
    /\ answer[o] = "waiting"
    /\ answer' = [answer EXCEPT ![o] = "rejected"]
    /\ UNCHANGED <<vars, kind, on, reached>>

ApiInit ==
    /\ Init
    /\ kind = [o \in Ops |-> None]
    /\ on = [o \in Ops |-> None]
    /\ reached = [o \in Ops |-> None]
    /\ answer = [o \in Ops |-> "none"]

Operate ==
    \/ \E d \in Dbs, o \in Ops, k \in Guarded \cup Unguarded :
         Refuse(d, o, k) \/ Forward(d, o, k) \/ ForwardUnchecked(d, o, k)
    \/ \E o \in Ops : Answer(o) \/ AnswerFails(o)

ApiNext == Operate \/ (Next /\ UNCHANGED opVars)

ApiSpec     == ApiInit /\ [][ApiNext]_apiVars
ApiFairSpec == ApiSpec /\ Fairness

-----------------------------------------------------------------------------
(* Properties.                                                             *)

\* An operation is executed by an adapter that has connected and has not been told to
\* disconnect, whoever connects, disconnects and fails meanwhile; but those that do not
\* ask checkIsConnected() may get one that a pending connect() has told to disconnect
\* (database.ts 58-60, 241, 258).
OperationsReachOpen ==
    [][\A o \in Ops : reached'[o] # reached[o] =>
          /\ adapter[reached'[o]] = "open"
          /\ ends[reached'[o]] > 0 => kind'[o] \in Unguarded /\ connecting[on'[o]]]_apiVars

\* A script fails on a missing connection only if the adapter it asked for the columns
\* has been told to disconnect since (database.ts 212-232).
ScriptsLoseTheirAdapter ==
    \A o \in Ops : answer[o] = "TypeError" /\ kind[o] = "script" => ends[reached[o]] > 0
=============================================================================
