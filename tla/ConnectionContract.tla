------------------------- MODULE ConnectionContract -------------------------
(***************************************************************************)
(* What a Server promises about its Database objects to a caller who waits *)
(* for a pending connect() before disconnecting, and who drops an object   *)
(* the Server has forgotten: a Database lives once, from createConnection  *)
(* to its disconnection or its first failed connect(), it is the only one  *)
(* of its name, and end() is the end of all of them at once.               *)
(***************************************************************************)
CONSTANTS Keys, Dbs, None

VARIABLES
    current,    \* the live Database of each name
    state       \* the life of each Database

vars == <<current, state>>

Init ==
    /\ current = [k \in Keys |-> None]
    /\ state = [d \in Dbs |-> "unborn"]

Create(k, d) ==
    /\ current[k] = None /\ state[d] = "unborn"
    /\ current' = [current EXCEPT ![k] = d]
    /\ state' = [state EXCEPT ![d] = "idle"]

\* Connecting again gives up the connection the Database has.
Begin(d) ==
    /\ state[d] \in {"idle", "ready"}
    /\ state' = [state EXCEPT ![d] = "connecting"]
    /\ UNCHANGED current

Succeed(d) ==
    /\ state[d] = "connecting"
    /\ state' = [state EXCEPT ![d] = "ready"]
    /\ UNCHANGED current

Close(S) ==
    /\ current' = [k \in Keys |-> IF current[k] \in S THEN None ELSE current[k]]
    /\ state' = [d \in Dbs |-> IF d \in S THEN "closed" ELSE state[d]]

Fail(d)       == state[d] = "connecting" /\ Close({d})
Disconnect(d) == state[d] \in {"idle", "ready"} /\ Close({d})
EndAll ==
    /\ \A d \in Dbs : state[d] # "connecting"
    /\ Close({d \in Dbs : state[d] \in {"idle", "ready"}})

Next ==
    \/ \E k \in Keys, d \in Dbs : Create(k, d)
    \/ \E d \in Dbs : Begin(d) \/ Succeed(d) \/ Fail(d) \/ Disconnect(d)
    \/ EndAll

Spec == Init /\ [][Next]_vars

FairSpec == Spec /\ \A d \in Dbs : WF_vars(Succeed(d) \/ Fail(d))
=============================================================================
