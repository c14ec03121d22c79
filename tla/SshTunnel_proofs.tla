-------------------------- MODULE SshTunnel_proofs --------------------------
(***************************************************************************)
(* For any set of sockets and every configuration: SshTunnel is type       *)
(* correct, and its steps are steps of TunnelContract, which ServerSession *)
(* takes its tunnels to follow.                                            *)
(***************************************************************************)
EXTENDS SshTunnel, TLAPS

\* A step of socket s, with what a proof about one of them has to look at.
SocketStep(s) ==
    \/ Accept(s) \/ ClientReady(s) \/ ClientFails(s) \/ ClientEnds(s) \/ StreamEnds(s)
    \/ ForwardOk(s) \/ ForwardErr(s) \/ DriverCloses(s) \/ SocketFails(s)

-----------------------------------------------------------------------------
LEMMA EndStreamType ==
    ASSUME TypeOK, NEW S \in SUBSET Sockets, EndStream(S)
    PROVE  /\ socket' \in [Sockets -> {"none", "open", "closed", "failed"}]
           /\ stream' \in [Sockets -> {"none", "asked", "refused", "open", "over"}]
           /\ \A s \in Sockets : /\ stream'[s] = "none" <=> stream[s] = "none"
                                 /\ socket'[s] = "none" <=> socket[s] = "none"
  BY DEF TypeOK, EndStream

\* Type correctness: streams are those of listed clients, and clients those of sockets.
THEOREM TypeCorrect == Spec => []TypeOK
<1>1. Init => TypeOK
  BY DEF Init, TypeOK
<1>2. TypeOK /\ [Next]_vars => TypeOK'
  <2> SUFFICES ASSUME TypeOK, [Next]_vars PROVE TypeOK'
    OBVIOUS
  <2>1. ASSUME UNCHANGED vars PROVE TypeOK'
    BY <2>1 DEF vars, TypeOK
  <2>2. ASSUME Configure \/ Listen \/ Close PROVE TypeOK'
    BY <2>2 DEF Configure, Listen, Close, Closing, TypeOK
  <2>3. ASSUME Closed PROVE TypeOK'
    <3>1. EndStream(listed) /\ listed \in SUBSET Sockets
      BY <2>3 DEF Closed, TypeOK
    <3> QED BY <2>3, <3>1, EndStreamType DEF Closed, TypeOK
  <2>4. ASSUME NEW s \in Sockets, SocketStep(s) PROVE TypeOK'
    <3>1. CASE Accept(s)
      BY <3>1 DEF Accept, TypeOK
    <3>2. CASE ClientReady(s)
      BY <3>2 DEF ClientReady, Push, TypeOK
    <3>3. CASE ClientFails(s) \/ ClientEnds(s) \/ StreamEnds(s)
      <4>1. EndStream({s}) /\ {s} \in SUBSET Sockets
        BY <3>3 DEF ClientFails, ClientEnds, StreamEnds
      <4> QED BY <3>3, <4>1, EndStreamType DEF ClientFails, ClientEnds, StreamEnds, TypeOK
    <3>4. CASE ForwardOk(s) \/ ForwardErr(s)
      BY <3>4 DEF ForwardOk, ForwardErr, Closing, TypeOK
    <3>5. CASE DriverCloses(s) \/ SocketFails(s)
      BY <3>5 DEF DriverCloses, SocketFails, TypeOK
    <3> QED BY <2>4, <3>1, <3>2, <3>3, <3>4, <3>5 DEF SocketStep
  <2> QED BY <2>1, <2>2, <2>3, <2>4 DEF Next, SocketStep
<1> QED BY <1>1, <1>2, PTL DEF Spec

-----------------------------------------------------------------------------
(* The contract.                                                           *)

\* There are no sockets before listen() has called back, and a socket does not outlive
\* its stream.
Started ==
    \A s \in Sockets :
        /\ socket[s] # "none" => server \in {"listening", "draining", "closed"}
        /\ stream[s] = "over" => socket[s] # "open"

Legs == [s \in Sockets |-> Leg(s)]

\* A step that changes one socket leaves the legs of the others as they are.
LEMMA OtherLegs ==
    ASSUME NEW s \in Sockets, NEW l,
           \A x \in Sockets \ {s} :
               socket'[x] = socket[x] /\ client'[x] = client[x] /\ stream'[x] = stream[x],
           Leg(s)' = l
    PROVE  Legs' = [Legs EXCEPT ![s] = l]
<1>1. ASSUME NEW x \in Sockets, x # s PROVE Leg(x)' = Leg(x)
  BY <1>1 DEF Leg
<1>2. Legs' = [x \in Sockets |-> Leg(x)']
  BY DEF Legs
<1> QED BY <1>1, <1>2 DEF Legs

\* The end of a stream is the end of its leg, if that was up.
LEMMA EndedLegs ==
    ASSUME TypeOK, NEW s \in Sockets, EndStream({s}), client[s] = "connected",
           client'[s] \in {"connected", "ended"},
           \A x \in Sockets \ {s} : client'[x] = client[x]
    PROVE  Legs' = [Legs EXCEPT ![s] = IF @ = "up" THEN "down" ELSE @]
<1>1. \A x \in Sockets \ {s} : socket'[x] = socket[x] /\ stream'[x] = stream[x]
  BY DEF EndStream
<1>2. Leg(s)' = IF Leg(s) = "up" THEN "down" ELSE Leg(s)
  BY DEF Leg, EndStream, TypeOK
<1>3. Legs[s] = Leg(s)
  BY DEF Legs
<1> QED BY <1>1, <1>2, <1>3, OtherLegs

\* Every step of a socket is one of the contract's, or changes nothing that it sees.
LEMMA SocketStepsFollow ==
    ASSUME TypeOK, TypeOK', Started, NEW s \in Sockets, SocketStep(s)
    PROVE  Contract!Next \/ UNCHANGED Contract!vars
<1> DEFINE Same == UNCHANGED <<Listener, Legs, successes, errors>>
<1>0. Same => UNCHANGED Contract!vars
  BY DEF Contract!vars, Legs
<1>1. ASSUME Accept(s) PROVE Contract!Accept(s)
  <2>1. Leg(s) = "none" /\ Legs[s] = "none" /\ Listener = "listening" /\ Listener' = Listener
    BY <1>1 DEF Accept, Leg, Legs, Listener
  <2>2. Leg(s)' = IF ConnectThrows THEN "broken" ELSE "accepted"
    BY <1>1 DEF Accept, Leg, TypeOK
  <2>3. Legs' = [Legs EXCEPT ![s] = IF ConnectThrows THEN "broken" ELSE "accepted"]
    BY <1>1, <2>2, OtherLegs DEF Accept, TypeOK
  <2> QED BY <1>1, <2>1, <2>3 DEF Accept, Contract!Accept, Legs
<1>2. ASSUME ClientReady(s) PROVE Same
  <2>1. Leg(s)' = Leg(s)
    BY <1>2 DEF ClientReady, Leg, TypeOK
  <2>2. Legs' = [Legs EXCEPT ![s] = Leg(s)]
    BY <1>2, <2>1, OtherLegs DEF ClientReady, TypeOK
  <2>3. Legs' = Legs
    BY <2>2 DEF Legs
  <2> QED BY <1>2, <2>3 DEF ClientReady, Listener
<1>3. ASSUME ClientFails(s) PROVE Contract!SshError(s)
  <2>1. Leg(s) # "none" /\ Legs[s] = Leg(s) /\ Listener' = Listener
    BY <1>3 DEF ClientFails, Leg, Legs, Listener, TypeOK
  <2>2. Leg(s)' = IF Leg(s) \in {"up", "down"} THEN "down" ELSE "broken"
    BY <1>3 DEF ClientFails, EndStream, Leg, TypeOK
  <2>3. Legs' = [Legs EXCEPT ![s] = IF Leg(s) \in {"up", "down"} THEN "down" ELSE "broken"]
    BY <1>3, <2>2, OtherLegs DEF ClientFails, EndStream, TypeOK
  <2> QED BY <1>3, <2>1, <2>3 DEF ClientFails, Contract!SshError, Legs
<1>4. ASSUME ClientEnds(s) \/ StreamEnds(s) PROVE Contract!Next \/ Same
  <2>1. Legs' = [Legs EXCEPT ![s] = IF @ = "up" THEN "down" ELSE @]
    BY <1>4, EndedLegs DEF ClientEnds, StreamEnds, TypeOK
  <2>2. UNCHANGED <<Listener, successes, errors>>
    BY <1>4 DEF ClientEnds, StreamEnds, Listener
  <2>3. CASE Legs[s] = "up"
    <3>1. Contract!LegsEnd({s})
      BY <2>1, <2>2, <2>3 DEF Contract!LegsEnd, Legs
    <3> QED BY <3>1 DEF Contract!Next
  <2>4. CASE Legs[s] # "up"
    BY <2>1, <2>2, <2>4 DEF Legs
  <2> QED BY <2>3, <2>4
<1>5. ASSUME ForwardOk(s) PROVE Contract!Forwarded(s)
  <2>1. Leg(s) \in {"accepted", "broken"} /\ Legs[s] = Leg(s) /\ Listener' = Listener
    BY <1>5 DEF ForwardOk, Leg, Legs, Listener, TypeOK
  <2>2. Leg(s)' = IF Leg(s) = "broken" THEN "broken" ELSE "up"
    BY <1>5 DEF ForwardOk, Leg, TypeOK
  <2>3. Legs' = [Legs EXCEPT ![s] = IF Leg(s) = "broken" THEN "broken" ELSE "up"]
    BY <1>5, <2>2, OtherLegs DEF ForwardOk, TypeOK
  <2> QED BY <1>5, <2>1, <2>3 DEF ForwardOk, Contract!Forwarded, Legs
<1>6. ASSUME ForwardErr(s) PROVE Contract!ForwardError(s)
  <2>1. Leg(s) \in {"accepted", "broken"} /\ Legs[s] = Leg(s) /\ Listener' = "closed"
    BY <1>6 DEF Started, ForwardErr, Closing, Leg, Legs, Listener, TypeOK
  <2>2. Leg(s)' = "broken"
    BY <1>6 DEF ForwardErr, Leg, TypeOK
  <2>3. Legs' = [Legs EXCEPT ![s] = "broken"]
    BY <1>6, <2>2, OtherLegs DEF ForwardErr, TypeOK
  <2> QED BY <1>6, <2>1, <2>3 DEF ForwardErr, Contract!ForwardError, Legs
<1>7. ASSUME DriverCloses(s) PROVE Contract!Next \/ Same
  <2>1. Leg(s)' = IF Leg(s) = "up" THEN "down" ELSE Leg(s)
    BY <1>7 DEF DriverCloses, Leg, TypeOK
  <2>2. Legs' = [Legs EXCEPT ![s] = IF Leg(s) = "up" THEN "down" ELSE Leg(s)]
    BY <1>7, <2>1, OtherLegs DEF DriverCloses, TypeOK
  <2>3. UNCHANGED <<Listener, successes, errors>>
    BY <1>7 DEF DriverCloses, Listener
  <2>4. CASE Leg(s) = "up"
    <3>1. Contract!LegsEnd({s})
      BY <2>2, <2>3, <2>4 DEF Contract!LegsEnd, Legs
    <3> QED BY <3>1 DEF Contract!Next
  <2>5. CASE Leg(s) # "up"
    BY <2>2, <2>3, <2>5 DEF Legs
  <2> QED BY <2>4, <2>5
<1>8. ASSUME SocketFails(s) PROVE Contract!SshError(s)
  <2>1. Leg(s) # "none" /\ Legs[s] = Leg(s) /\ Listener' = Listener
    BY <1>8 DEF SocketFails, Leg, Legs, Listener, TypeOK
  <2>2. Leg(s)' = IF Leg(s) \in {"up", "down"} THEN "down" ELSE "broken"
    BY <1>8 DEF SocketFails, Leg, Started, TypeOK
  <2>3. Legs' = [Legs EXCEPT ![s] = IF Leg(s) \in {"up", "down"} THEN "down" ELSE "broken"]
    BY <1>8, <2>2, OtherLegs DEF SocketFails, TypeOK
  <2> QED BY <1>8, <2>1, <2>3 DEF SocketFails, Contract!SshError, Legs
<1> QED BY <1>0, <1>1, <1>2, <1>3, <1>4, <1>5, <1>6, <1>7, <1>8 DEF SocketStep, Contract!Next

LEMMA StartedAlways == Spec => []Started
<1>1. Init => Started
  BY DEF Init, Started
<1>2. TypeOK /\ TypeOK' /\ Started /\ [Next]_vars => Started'
  <2> SUFFICES ASSUME TypeOK, TypeOK', Started, [Next]_vars PROVE Started'
    OBVIOUS
  <2>1. ASSUME UNCHANGED vars PROVE Started'
    BY <2>1 DEF vars, Started
  <2>2. ASSUME Configure \/ Listen \/ Close PROVE Started'
    BY <2>2 DEF Configure, Listen, Close, Closing, Started, TypeOK
  <2>3. ASSUME Closed PROVE Started'
    BY <2>3 DEF Closed, NoSocketOpen, EndStream, Started, TypeOK
  <2>4. ASSUME NEW s \in Sockets, SocketStep(s) PROVE Started'
    <3>1. CASE Accept(s)
      BY <3>1 DEF Accept, Started, TypeOK
    <3>2. CASE ClientReady(s) \/ ForwardOk(s) \/ ForwardErr(s)
      BY <3>2 DEF ClientReady, ForwardOk, ForwardErr, Closing, Started, TypeOK
    <3>3. CASE ClientFails(s) \/ ClientEnds(s) \/ StreamEnds(s)
      BY <3>3 DEF ClientFails, ClientEnds, StreamEnds, EndStream, Started, TypeOK
    <3>4. CASE DriverCloses(s) \/ SocketFails(s)
      BY <3>4 DEF DriverCloses, SocketFails, Started, TypeOK
    <3> QED BY <2>4, <3>1, <3>2, <3>3, <3>4 DEF SocketStep
  <2> QED BY <2>1, <2>2, <2>3, <2>4 DEF Next, SocketStep
<1> QED BY <1>1, <1>2, TypeCorrect, PTL DEF Spec

\* The steps of the server itself.  'close' ends the legs of all clients that are listed.
LEMMA ServerStepsFollow ==
    ASSUME TypeOK, Started, Configure \/ Listen \/ Close \/ Closed
    PROVE  Contract!Next \/ UNCHANGED Contract!vars
<1>1. ASSUME UNCHANGED <<socket, client, stream>> PROVE Legs' = Legs
  BY <1>1 DEF Legs, Leg
<1>2. CASE Configure \/ Listen
  <2>1. Contract!Settle \/ UNCHANGED Contract!vars
    BY <1>1, <1>2 DEF Configure, Listen, Listener, Contract!Settle, Contract!vars, Legs
  <2> QED BY <2>1 DEF Contract!Next
<1>3. CASE Close
  <2>1. Contract!Close
    BY <1>1, <1>3 DEF Close, Closing, Listener, Contract!Close, Legs
  <2> QED BY <2>1 DEF Contract!Next
<1>4. CASE Closed
  <2> DEFINE S == {s \in Sockets : Legs[s] = "up"}
             Ended == {s \in S : Legs[s]' = "down"}
  <2>1. \A s \in Sockets : Legs[s]' = Legs[s] \/ (Legs[s] = "up" /\ Legs[s]' = "down")
    BY <1>4 DEF Closed, EndStream, NoSocketOpen, Legs, Leg, TypeOK
  <2>2. Legs' = [s \in Sockets |-> IF s \in Ended THEN "down" ELSE Legs[s]]
    BY <2>1 DEF Legs
  <2>3. UNCHANGED <<Listener, successes, errors>>
    BY <1>4 DEF Closed, Listener
  <2>4. Contract!LegsEnd(Ended)
    BY <2>2, <2>3 DEF Contract!LegsEnd, Legs
  <2>5. Ended \in SUBSET Sockets
    OBVIOUS
  <2> QED BY <2>4, <2>5 DEF Contract!Next
<1> QED BY <1>2, <1>3, <1>4

\* The tunnel of tunnel.ts is one that TunnelContract describes: whatever the drivers,
\* the SSH servers and the Server do, a Server sees no other order of events.
THEOREM ImplementsContract == Spec => LegsAreLegs
<1>1. Init => Contract!Init
  BY DEF Init, Contract!Init, Leg, Listener
<1>2. TypeOK /\ TypeOK' /\ Started /\ [Next]_vars => [Contract!Next]_Contract!vars
  <2> SUFFICES ASSUME TypeOK, TypeOK', Started, [Next]_vars
               PROVE  Contract!Next \/ UNCHANGED Contract!vars
    OBVIOUS
  <2>1. CASE UNCHANGED vars
    BY <2>1 DEF vars, Contract!vars, Leg, Listener
  <2>2. CASE Configure \/ Listen \/ Close \/ Closed
    BY <2>2, ServerStepsFollow
  <2>3. CASE \E s \in Sockets : SocketStep(s)
    BY <2>3, SocketStepsFollow
  <2> QED BY <2>1, <2>2, <2>3 DEF Next, SocketStep
<1> QED BY <1>1, <1>2, TypeCorrect, StartedAlways, PTL DEF Spec, LegsAreLegs, Contract!Spec

-----------------------------------------------------------------------------
(* What a socket waits for, and what the end of the tunnel ends.           *)

\* Who has been connected is listed, and has been asked to forward its socket.
ConnectedIsListed ==
    \A s \in Sockets : client[s] \in {"connected", "ended"} => s \in listed /\ stream[s] # "none"

LEMMA ListedAlways == Spec => []ConnectedIsListed
<1>1. Init => ConnectedIsListed
  BY DEF Init, ConnectedIsListed
<1>2. TypeOK /\ ConnectedIsListed /\ [Next]_vars => ConnectedIsListed'
  <2> SUFFICES ASSUME TypeOK, ConnectedIsListed, [Next]_vars PROVE ConnectedIsListed'
    OBVIOUS
  <2>1. CASE UNCHANGED vars \/ Configure \/ Listen \/ Close
    BY <2>1 DEF vars, Configure, Listen, Close, ConnectedIsListed
  <2>2. CASE Closed
    BY <2>2 DEF Closed, EndStream, ConnectedIsListed, TypeOK
  <2>3. ASSUME NEW s \in Sockets, SocketStep(s) PROVE ConnectedIsListed'
    <3>1. CASE Accept(s) \/ ClientReady(s)
      BY <3>1 DEF Accept, ClientReady, Push, ConnectedIsListed, TypeOK
    <3>2. CASE ClientFails(s) \/ ClientEnds(s) \/ StreamEnds(s)
      BY <3>2 DEF ClientFails, ClientEnds, StreamEnds, EndStream, ConnectedIsListed, TypeOK
    <3>3. CASE ForwardOk(s) \/ ForwardErr(s) \/ DriverCloses(s) \/ SocketFails(s)
      BY <3>3 DEF ForwardOk, ForwardErr, DriverCloses, SocketFails, ConnectedIsListed, TypeOK
    <3> QED BY <2>3, <3>1, <3>2, <3>3 DEF SocketStep
  <2> QED BY <2>1, <2>2, <2>3 DEF Next, SocketStep
<1> QED BY <1>1, <1>2, TypeCorrect, PTL DEF Spec

\* A socket of which the Server has not heard yet waits for the handshake of its client or
\* for the callback of forwardOut(), whatever has become of the client and of the tunnel
\* meanwhile: no order of callbacks forgets it (tunnel.ts 26-56).
THEOREM AcceptedIsOwed ==
    Spec => [](\A s \in Sockets : Leg(s) = "accepted" => client[s] = "connecting" \/ stream[s] = "asked")
<1>1. TypeOK /\ ConnectedIsListed =>
        \A s \in Sockets : Leg(s) = "accepted" => client[s] = "connecting" \/ stream[s] = "asked"
  BY DEF TypeOK, ConnectedIsListed, Leg
<1> QED BY <1>1, TypeCorrect, ListedAlways, PTL

\* 'close' leaves no client connected, and no stream open: who is connected by then is
\* among `connections`, whenever it got ready (tunnel.ts 67-70).
THEOREM CloseEndsAll ==
    Spec => [][Closed => \A s \in Sockets : client'[s] # "connected" /\ stream'[s] # "open"]_vars
<1>1. TypeOK /\ ConnectedIsListed /\ Closed =>
        \A s \in Sockets : client'[s] # "connected" /\ stream'[s] # "open"
  BY DEF TypeOK, ConnectedIsListed, Closed, EndStream
<1>2. TypeOK /\ ConnectedIsListed /\ [Next]_vars =>
        [Closed => \A s \in Sockets : client'[s] # "connected" /\ stream'[s] # "open"]_vars
  BY <1>1
<1> QED BY <1>2, TypeCorrect, ListedAlways, PTL DEF Spec
=============================================================================
