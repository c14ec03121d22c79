--------------------------- MODULE TunnelContract ---------------------------
(***************************************************************************)
(* What a Server sees of one SSH tunnel: its listener, one leg for each    *)
(* connection of a driver, and how often it has emitted 'success' and      *)
(* 'error'.  ServerSession takes its tunnels to behave like this; its      *)
(* actions of the same names are these, for several tunnels.               *)
(***************************************************************************)
EXTENDS Naturals

CONSTANT Sockets

VARIABLES
    tunnel,         \* "opening", "listening" or "closed"
    leg,            \* "none", "accepted", "up", "broken" or "down"
    successes,
    errors          \* events emitted so far

vars == <<tunnel, leg, successes, errors>>

Init ==
    /\ tunnel = "opening"
    /\ leg = [s \in Sockets |-> "none"]
    /\ successes = 0 /\ errors = 0

\* The promise of the tunnel is resolved or rejected.
Settle ==
    /\ tunnel = "opening"
    /\ tunnel' \in {"listening", "closed"}
    /\ UNCHANGED <<leg, successes, errors>>

Close ==
    /\ tunnel = "listening"
    /\ tunnel' = "closed"
    /\ UNCHANGED <<leg, successes, errors>>

Accept(s) ==
    /\ tunnel = "listening" /\ leg[s] = "none"
    /\ \/ leg' = [leg EXCEPT ![s] = "accepted"] /\ UNCHANGED errors
       \/ leg' = [leg EXCEPT ![s] = "broken"] /\ errors' = errors + 1
    /\ UNCHANGED <<tunnel, successes>>

Forwarded(s) ==
    /\ leg[s] \in {"accepted", "broken"}
    /\ leg' = [leg EXCEPT ![s] = IF @ = "broken" THEN @ ELSE "up"]
    /\ successes' = successes + 1
    /\ UNCHANGED <<tunnel, errors>>

SshError(s) ==
    /\ leg[s] # "none"
    /\ leg' = [leg EXCEPT ![s] = IF @ \in {"up", "down"} THEN "down" ELSE "broken"]
    /\ errors' = errors + 1
    /\ UNCHANGED <<tunnel, successes>>

\* Several at once when the tunnel ends its clients.  ServerSession ends them one by
\* one: no event tells the difference.
LegsEnd(S) ==
    /\ \A s \in S : leg[s] = "up"
    /\ leg' = [s \in Sockets |-> IF s \in S THEN "down" ELSE leg[s]]
    /\ UNCHANGED <<tunnel, successes, errors>>

ForwardError(s) ==
    /\ leg[s] \in {"accepted", "broken"}
    /\ leg' = [leg EXCEPT ![s] = "broken"]
    /\ tunnel' = "closed"
    /\ errors' = errors + 1
    /\ UNCHANGED successes

Next ==
    \/ Settle \/ Close
    \/ \E s \in Sockets : Accept(s) \/ Forwarded(s) \/ SshError(s) \/ ForwardError(s)
    \/ \E S \in SUBSET Sockets : LegsEnd(S)

Spec == Init /\ [][Next]_vars

\* The tunnel's promise settles, and every accepted leg is heard of.
LegSettles(s) == leg[s] = "accepted" /\ (Forwarded(s) \/ SshError(s) \/ ForwardError(s))

FairSpec == Spec /\ WF_vars(Settle) /\ \A s \in Sockets : WF_vars(LegSettles(s))
=============================================================================
