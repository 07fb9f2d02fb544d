--------------------------- MODULE OverlayProofs ----------------------------
(***************************************************************************)
(* The routing table of every node, for every set of nodes, addresses and  *)
(* ports and every behaviour of the network; and where its entries lead    *)
(* when one host serves the overlay.                                       *)
(***************************************************************************)
EXTENDS Overlay, JoinHandshakeProofs

\* What was written from an address came from the peer bound to it, if any:
\* bindings are neither changed nor removed, and made only by a delivery.
TableRemembers ==
  \A n \in Peers, ip \in Address :
    heard[n][ip] = IF table[n][ip] = NoPeer THEN {} ELSE {table[n][ip]}

-----------------------------------------------------------------------------
\* The data plane leaves the handshake's state well typed.
LEMMA DataTypes ==
  ASSUME OverlayTypeOK, DataStep
  PROVE  TypeOK'
<1>0. /\ TypeOK /\ data \subseteq Packet
      /\ table \in [Peers -> [Address -> Peers \cup {NoPeer}]]
      /\ peers \in [Peers -> SUBSET Peers] /\ session \in [Peers -> SUBSET Peers]
      /\ asked \in [Peers -> SUBSET Peers]
  BY DEF OverlayTypeOK, RouterTypes, TypeOK, ClientTypes, SteamTypes
<1>1. ASSUME NEW n \in Peers, Configure(n)
      PROVE  TypeOK'
  BY <1>0, <1>1, TypeStep DEF Configure
<1>2. ASSUME NEW n \in Peers, NEW dst \in Destination, NEW port \in Ports, Egress(n, dst, port)
      PROVE  TypeOK'
  <2>1. Receivers(n, dst) \subseteq Peers
    <3>1. CASE dst \in Address
      BY <1>0, <3>1 DEF Receivers
    <3>2. CASE dst = Broadcast
      BY <1>0, <3>2 DEF Receivers
    <3>3. QED
      BY <3>1, <3>2 DEF Destination
  <2>2. session' \in [Peers -> SUBSET Peers]
    BY <1>0, <1>2, <2>1 DEF Egress
  <2>3. SteamTypes'
    BY <1>0, <1>2, <2>2 DEF Egress, TypeOK, SteamTypes
  <2>4. QED
    BY <1>0, <1>2, <2>3, UnchangedTypes DEF Egress, TypeOK
<1>3. ASSUME NEW n \in Peers, NEW p \in data, Ingress(n, p)
      PROVE  TypeOK'
  <2>1. p.from \in Peers
    BY <1>0 DEF Packet
  <2>2. peers' \in [Peers -> SUBSET Peers]
    BY <1>0, <1>3, <2>1 DEF Ingress, TakeData
  <2>3. /\ UNCHANGED << life, pool, pending, localIP, devIP, loop >>
        /\ UNCHANGED timerVars /\ UNCHANGED steamVars
        /\ UNCHANGED resultVars /\ UNCHANGED historyVars
    BY <1>3 DEF Ingress, TakeData
  <2>4. ClientTypes'
    BY <1>0, <2>2, <2>3 DEF TypeOK, ClientTypes
  <2>5. QED
    BY <1>0, <2>3, <2>4, UnchangedTypes DEF TypeOK
<1>4. ASSUME NEW n \in Peers, NEW p \in data, AskForData(n, p)
      PROVE  TypeOK'
  <2>1. p.from \in Peers
    BY <1>0 DEF Packet
  <2>2. asked' \in [Peers -> SUBSET Peers]
    BY <1>0, <1>4, <2>1 DEF AskForData
  <2>3. SteamTypes'
    BY <1>0, <1>4, <2>2 DEF AskForData, TypeOK, SteamTypes
  <2>4. QED
    BY <1>0, <1>4, <2>3, UnchangedTypes DEF AskForData, TypeOK
<1>5. ASSUME NEW p \in data, Lose(p)
      PROVE  TypeOK'
  BY <1>0, <1>5, TypeStep DEF Lose
<1>6. QED
  BY <1>1, <1>2, <1>3, <1>4, <1>5 DEF DataStep

\* The router's own state is well typed after a packet is received.
LEMMA IngressTypes ==
  ASSUME OverlayTypeOK, NEW n \in Peers, NEW p \in data, Ingress(n, p)
  PROVE  RouterTypes'
<1>0. /\ p.from \in Peers /\ p.src \in Address
      /\ table \in [Peers -> [Address -> Peers \cup {NoPeer}]]
      /\ heard \in [Peers -> [Address -> SUBSET Peers]]
  BY DEF OverlayTypeOK, RouterTypes, Packet
<1>1. table' \in [Peers -> [Address -> Peers \cup {NoPeer}]]
  <2>1. CASE UNCHANGED table
    BY <1>0, <2>1
  <2>2. CASE Bind(n, p.src, p.from)
    <3>1. [table[n] EXCEPT ![p.src] = p.from] \in [Address -> Peers \cup {NoPeer}]
      BY <1>0
    <3>2. QED
      BY <1>0, <2>2, <3>1 DEF Bind
  <2>3. QED
    BY <2>1, <2>2 DEF Ingress
<1>2. heard' \in [Peers -> [Address -> SUBSET Peers]]
  <2>1. CASE UNCHANGED heard
    BY <1>0, <2>1
  <2>2. CASE Write(n, p)
    <3>1. [heard[n] EXCEPT ![p.src] = @ \cup {p.from}] \in [Address -> SUBSET Peers]
      BY <1>0
    <3>2. QED
      BY <1>0, <2>2, <3>1 DEF Write
  <2>3. QED
    BY <2>1, <2>2 DEF Ingress
<1>3. QED
  BY <1>1, <1>2 DEF Ingress, TakeData, OverlayTypeOK, RouterTypes

\* Every step keeps the types of the router's state.
LEMMA RouterTypeStep ==
  ASSUME OverlayTypeOK, [OverlayNext]_overlayVars
  PROVE  RouterTypes'
<1>0. /\ RouterTypes /\ TypeOK /\ devIP \in [Peers -> Address]
      /\ peers \in [Peers -> SUBSET Peers]
  BY DEF OverlayTypeOK, TypeOK, ClientTypes
<1>1. CASE ControlStep
  <2>1. EmptyTable \in [Address -> Peers \cup {NoPeer}] /\ Silence \in [Address -> SUBSET Peers]
    BY DEF EmptyTable, Silence
  <2>2. QED
    BY <1>0, <1>1, <2>1 DEF ControlStep, RouterTypes
<1>2. ASSUME NEW n \in Peers, Configure(n)
      PROVE  RouterTypes'
  <2>0. firewall \in [Peers -> BOOLEAN]
    BY <1>0 DEF RouterTypes
  <2>1. firewall' \in [Peers -> BOOLEAN]
    <3>1. ASSUME NEW on \in BOOLEAN, firewall' = [firewall EXCEPT ![n] = on]
          PROVE  firewall' \in [Peers -> BOOLEAN]
      BY <2>0, <3>1, Zenon
    <3>2. CASE UNCHANGED firewall
      BY <2>0, <3>2
    <3>3. QED
      BY <1>2, <3>1, <3>2 DEF Configure
  <2>2. allowedPorts' \in [Peers -> SUBSET Ports]
    <3>0. allowedPorts \in [Peers -> SUBSET Ports]
      BY <1>0 DEF RouterTypes
    <3>1. ASSUME NEW ps \in SUBSET Ports, allowedPorts' = [allowedPorts EXCEPT ![n] = ps]
          PROVE  allowedPorts' \in [Peers -> SUBSET Ports]
      BY <3>0, <3>1
    <3>2. CASE UNCHANGED allowedPorts
      BY <3>0, <3>2
    <3>3. ASSUME NEW port \in Ports
          PROVE  allowedPorts[n] \cup {port} \in SUBSET Ports /\ allowedPorts[n] \ {port} \in SUBSET Ports
      BY <3>0
    <3>4. QED
      BY <1>2, <3>1, <3>2, <3>3 DEF Configure
  <2>3. QED
    BY <1>0, <1>2, <2>1, <2>2 DEF Configure, RouterTypes
<1>3. ASSUME NEW n \in Peers, NEW dst \in Destination, NEW port \in Ports, Egress(n, dst, port)
      PROVE  RouterTypes'
  <2>1. Receivers(n, dst) \subseteq Peers
    <3>1. CASE dst \in Address
      BY <1>0, <3>1 DEF Receivers, RouterTypes
    <3>2. CASE dst = Broadcast
      BY <1>0, <3>2 DEF Receivers
    <3>3. QED
      BY <3>1, <3>2 DEF Destination
  <2>2. data' \subseteq Packet
    BY <1>0, <1>3, <2>1 DEF Egress, RouterTypes, Packet
  <2>3. QED
    BY <1>0, <1>3, <2>2 DEF Egress, RouterTypes
<1>4. ASSUME NEW n \in Peers, NEW p \in data, Ingress(n, p)
      PROVE  RouterTypes'
  BY <1>4, IngressTypes
<1>5. ASSUME NEW n \in Peers, NEW p \in data, AskForData(n, p)
      PROVE  RouterTypes'
  BY <1>0, <1>5 DEF AskForData, routerVars, RouterTypes
<1>6. ASSUME NEW p \in data, Lose(p)
      PROVE  RouterTypes'
  BY <1>0, <1>6 DEF Lose, RouterTypes
<1>7. CASE UNCHANGED overlayVars
  BY <1>0, <1>7 DEF overlayVars, routerVars, RouterTypes
<1>8. QED
  BY <1>1, <1>2, <1>3, <1>4, <1>5, <1>6, <1>7 DEF OverlayNext, DataStep

\* The whole state keeps its types.
LEMMA OverlayTypeStep ==
  ASSUME OverlayTypeOK, [OverlayNext]_overlayVars
  PROVE  OverlayTypeOK'
<1>0. TypeOK
  BY DEF OverlayTypeOK
<1>1. ControlStep => TypeOK'
  BY <1>0, TypeStep DEF ControlStep
<1>2. DataStep => TypeOK'
  BY DataTypes
<1>3. UNCHANGED overlayVars => TypeOK'
  BY <1>0, TypeStep DEF overlayVars
<1>4. TypeOK'
  BY <1>1, <1>2, <1>3 DEF OverlayNext
<1>5. QED
  BY <1>4, RouterTypeStep DEF OverlayTypeOK

\* Every variable keeps its type (Overlay's type invariant, of client.go,
\* router.go and table.go together).
THEOREM OverlayTypesHold == OverlaySpec => []OverlayTypeOK
<1>1. OverlayInit => OverlayTypeOK
  <2> SUFFICES ASSUME OverlayInit PROVE OverlayTypeOK
    OBVIOUS
  <2>1. TypeOK
    BY TypeInit DEF OverlayInit
  <2>2. RouterTypes
    BY DEF OverlayInit, RouterTypes, EmptyTable, Silence
  <2>3. QED
    BY <2>1, <2>2 DEF OverlayTypeOK
<1>2. OverlayTypeOK /\ [OverlayNext]_overlayVars => OverlayTypeOK'
  BY OverlayTypeStep
<1>3. QED
  BY <1>1, <1>2, PTL DEF OverlaySpec

-----------------------------------------------------------------------------
\* Every step keeps what the table remembers.
LEMMA TableStep ==
  ASSUME OverlayTypeOK, TableRemembers, [OverlayNext]_overlayVars
  PROVE  TableRemembers'
<1>0. /\ NoPeer \notin Peers
      /\ table \in [Peers -> [Address -> Peers \cup {NoPeer}]]
      /\ heard \in [Peers -> [Address -> SUBSET Peers]]
      /\ data \subseteq Packet
  BY HandshakeAssumption DEF OverlayTypeOK, RouterTypes
<1>1. CASE ControlStep
  <2> SUFFICES ASSUME NEW n \in Peers, NEW ip \in Address
               PROVE  heard'[n][ip] = IF table'[n][ip] = NoPeer THEN {} ELSE {table'[n][ip]}
    BY DEF TableRemembers
  <2>1. CASE restarts'[n] # restarts[n]
    BY <1>1, <2>1 DEF ControlStep, EmptyTable, Silence
  <2>2. CASE restarts'[n] = restarts[n]
    BY <1>1, <2>2 DEF ControlStep, TableRemembers
  <2>3. QED
    BY <2>1, <2>2
<1>2. ASSUME NEW m \in Peers, NEW p \in data, Ingress(m, p)
      PROVE  TableRemembers'
  <2>1. p.from \in Peers /\ p.src \in Address
    BY <1>0 DEF Packet
  <2>2. CASE UNCHANGED << table, heard >>
    BY <2>2 DEF TableRemembers
  <2>3. CASE Bind(m, p.src, p.from) /\ Write(m, p) /\ table[m][p.src] \in {NoPeer, p.from}
    <3> SUFFICES ASSUME NEW n \in Peers, NEW ip \in Address
                 PROVE  heard'[n][ip] = IF table'[n][ip] = NoPeer THEN {} ELSE {table'[n][ip]}
      BY DEF TableRemembers
    <3>1. CASE n = m /\ ip = p.src
      <4>1. table'[n][ip] = p.from /\ heard'[n][ip] = heard[n][ip] \cup {p.from}
        BY <1>0, <2>1, <2>3, <3>1 DEF Bind, Write
      <4>2. heard[n][ip] \subseteq {p.from}
        BY <2>3, <3>1 DEF TableRemembers
      <4>3. QED
        BY <1>0, <2>1, <4>1, <4>2
    <3>2. CASE ~(n = m /\ ip = p.src)
      <4>1. table'[n][ip] = table[n][ip] /\ heard'[n][ip] = heard[n][ip]
        BY <1>0, <2>1, <2>3, <3>2 DEF Bind, Write
      <4>2. QED
        BY <4>1 DEF TableRemembers
    <3>3. QED
      BY <3>1, <3>2
  <2>4. QED
    BY <1>2, <2>2, <2>3 DEF Ingress
<1>3. CASE UNCHANGED << table, heard >>
  BY <1>3 DEF TableRemembers
<1>4. ASSUME DataStep
      PROVE  TableRemembers'
  BY <1>2, <1>3, <1>4 DEF DataStep, Configure, Egress, AskForData, Lose, routerVars
<1>5. QED
  BY <1>1, <1>3, <1>4 DEF OverlayNext, overlayVars, routerVars

\* The table's invariant holds throughout.
LEMMA TableInvariance == OverlaySpec => []TableRemembers
<1>1. OverlayInit => TableRemembers
  BY DEF OverlayInit, TableRemembers, EmptyTable, Silence
<1>2. OverlayTypeOK /\ TableRemembers /\ [OverlayNext]_overlayVars => TableRemembers'
  BY TableStep
<1>3. QED
  BY <1>1, <1>2, OverlayTypesHold, PTL DEF OverlaySpec

\* No node ever writes packets of two peers from one address, whatever leases,
\* departures, firewalls and restarts do (router.go l.60-66).
THEOREM OneVoice == OverlaySpec => []OneVoicePerAddress
<1>1. TableRemembers => OneVoicePerAddress
  BY DEF TableRemembers, OneVoicePerAddress
<1>2. QED
  BY <1>1, TableInvariance, PTL

\* No address is bound without a packet that passed the firewall and was
\* written (router.go l.57-66).
THEOREM BindingsAreEarned == OverlaySpec => []BoundByDelivery
<1>1. TableRemembers => BoundByDelivery
  BY DEF TableRemembers, BoundByDelivery
<1>2. QED
  BY <1>1, TableInvariance, PTL

-----------------------------------------------------------------------------
(***************************************************************************)
(* Who asks whom for an address: only the hosts that its user or its       *)
(* --peer names are ever asked by a node, offer it an address, hold a      *)
(* lease of it or refuse it one.                                           *)
(***************************************************************************)
MayAsk(n) == MayJoin[n] \cup MayClick[n] \cup ({Bootstrap[n]} \ {NoPeer})

MeantMessage(p, q, msg) ==
  /\ msg.act = "request" => q \in MayAsk(p)
  /\ msg.act = "offer" => p \in MayAsk(q)

OnlyTheMeantAreAsked ==
  /\ \A n, h \in Peers : IsAsking(n, h) => h \in MayAsk(n)
  /\ \A p, q \in Peers : \A msg \in ToSet(net[<< p, q >>]) : MeantMessage(p, q, msg)
  /\ \A n \in Peers : OnOffer(loop[n]) => loop[n].from \in MayAsk(n)
  /\ \A h, n \in Peers : Holds(pool[h], n) => h \in MayAsk(n)
  /\ \A h, n \in Peers : n \in spoiled[h] => n \in gaveUp[h] \/ h \in MayAsk(n)

\* What a step adds to the network.
LEMMA MessageSteps ==
  ASSUME TypeOK, [Next]_vars, NEW p \in Peers, NEW q \in Peers,
         NEW msg \in ToSet(net'[<< p, q >>])
  PROVE  \/ msg \in ToSet(net[<< p, q >>])
         \/ msg.act = "request" /\ Asks(p, q)
         \/ msg.act = "offer" /\ OnRequestIP(p, q)
         \/ msg.act \in {"ack", "nack", "disconnect"}
<1> DEFINE Good == \/ msg \in ToSet(net[<< p, q >>])
                   \/ msg.act = "request" /\ Asks(p, q)
                   \/ msg.act = "offer" /\ OnRequestIP(p, q)
                   \/ msg.act \in {"ack", "nack", "disconnect"}
<1>0. /\ ClientTypes /\ SteamTypes /\ << p, q >> \in Pairs
  BY DEF TypeOK, Pairs
<1>1. ToSet(net'[<< p, q >>]) = ToSet(net[<< p, q >>]) => Good
  OBVIOUS
<1>2. ASSUME NEW n \in Peers, NEW m \in Peers, net[<< m, n >>] # << >>, Take(n, m)
      PROVE  Good
  BY <1>0, <1>2, TakeElements
<1>3. ASSUME NEW n \in Peers, NEW m \in Peers, NEW x \in Message, Send(n, m, x)
      PROVE  msg \in ToSet(net[<< p, q >>]) \/ (n = p /\ m = q /\ msg = x)
  <2>1. ToSet(net'[<< p, q >>]) =
          ToSet(net[<< p, q >>]) \cup (IF << p, q >> = << n, m >> THEN {x} ELSE {})
    BY <1>0, <1>3, SendElements
  <2>2. QED
    BY <2>1
<1>4. ASSUME NEW n \in Peers, NEW m \in Peers, NEW x \in Message,
             net[<< m, n >>] # << >>, TakeAndAnswer(n, m, x)
      PROVE  msg \in ToSet(net[<< p, q >>]) \/ (n = p /\ m = q /\ msg = x)
  <2>1. ToSet(net'[<< p, q >>]) \subseteq
          ToSet(net[<< p, q >>]) \cup (IF << p, q >> = << n, m >> THEN {x} ELSE {})
    BY <1>0, <1>4, AnswerElements
  <2>2. QED
    BY <2>1
<1>5. PICK request \in Message : request = Msg("request", NoIP) /\ request.act = "request"
  BY MessageTypes DEF Msg
<1>6. ASSUME NEW n \in Peers, RequestBootstrap(n) PROVE Good
  <2>1. /\ Bootstrap[n] \in Peers
        /\ UNCHANGED net \/ Send(n, Bootstrap[n], request)
    BY <1>5, <1>6, HandshakeAssumption DEF RequestBootstrap, AskFor
  <2>2. msg \in ToSet(net[<< p, q >>]) \/ (n = p /\ Bootstrap[n] = q /\ msg = request)
    BY <1>3, <2>1
  <2>3. QED
    BY <1>5, <1>6, <2>2 DEF Asks
<1>7. ASSUME NEW n \in Peers, NEW m \in Peers,
             \/ JoinRequest(n, m) \/ LoopRequest(n, m) \/ RetrySend(n, m) \/ GhostAsk(n, m)
      PROVE  Good
  <2>1. UNCHANGED net \/ Send(n, m, request)
    BY <1>5, <1>7 DEF JoinRequest, LoopRequest, RetrySend, GhostAsk, AskFor
  <2>2. msg \in ToSet(net[<< p, q >>]) \/ (n = p /\ m = q /\ msg = request)
    BY <1>3, <2>1
  <2>3. QED
    BY <1>5, <1>7, <2>2 DEF Asks
<1>8. ASSUME NEW n \in Peers,
             \/ Start(n) \/ AssignHostIP(n) \/ RecordHostIP(n) \/ Close(n) \/ Forget(n)
             \/ VerifyFinds(n)
      PROVE  UNCHANGED net
  BY <1>8 DEF Start, AssignHostIP, RecordHostIP, Close, Forget, VerifyFinds, steamVars
<1>9. ASSUME NEW n \in Peers, NEW m \in Peers,
             \/ CheckJoin(n, m) \/ Join(n, m) \/ LoopJoin(n, m) \/ JoinTimeout(n, m)
             \/ RetryTick(n, m) \/ GhostEnds(n, m) \/ Ask(n, m) \/ Accept(n, m)
      PROVE  UNCHANGED net
  BY <1>9
  DEF CheckJoin, Join, LoopJoin, JoinTimeout, RetryTick, GhostEnds, Ask, Accept, steamVars
<1>10. ASSUME NEW n \in Peers, NEW m \in Peers,
              OnAckIP(n, m) \/ OnNackIP(n, m) \/ OnDisconnect(n, m) \/ Drop(n, m)
       PROVE  Good
  BY <1>2, <1>10 DEF OnAckIP, OnNackIP, OnDisconnect, Drop, CanReceive
<1>11. ASSUME NEW n \in Peers, NEW m \in Peers, Deny(n, m) PROVE Good
  <2>1. net' = [net EXCEPT ![<< m, n >>] = << >>]
    BY <1>11 DEF Deny
  <2>2. net'[<< p, q >>] = net[<< p, q >>] \/ net'[<< p, q >>] = << >>
    BY <1>0, <2>1 DEF SteamTypes
  <2>3. ToSet(<< >>) = {}
    BY DEF ToSet
  <2>4. QED
    BY <2>2, <2>3
<1>12. ASSUME NEW n \in Peers, NEW m \in Peers, OnRequestIP(n, m) PROVE Good
  <2>1. PICK x \in Message : x.act \in {"offer", "nack"} /\ TakeAndAnswer(n, m, x)
    BY <1>12, RequestAnswers
  <2>2. net[<< m, n >>] # << >>
    BY <1>12 DEF OnRequestIP, CanReceive
  <2>3. msg \in ToSet(net[<< p, q >>]) \/ (n = p /\ m = q /\ msg = x)
    BY <1>4, <2>1, <2>2
  <2>4. QED
    BY <1>12, <2>1, <2>3
<1>13. ASSUME NEW n \in Peers, NEW m \in Peers, OnOfferIP(n, m) PROVE Good
  <2>1. net[<< m, n >>] # << >>
    BY <1>13 DEF OnOfferIP, CanReceive
  <2>2. Take(n, m) \/ TakeAndAnswer(n, m, Msg("nack", NoIP))
    BY <1>13 DEF OnOfferIP
  <2>3. Msg("nack", NoIP) \in Message /\ Msg("nack", NoIP).act = "nack"
    BY MessageTypes DEF Msg
  <2>4. QED
    BY <1>2, <1>4, <2>1, <2>2, <2>3
<1>14. ASSUME NEW n \in Peers, Confirm(n) \/ VerifyMisses(n) PROVE Good
  <2>1. loop[n].at = "verify" \/ loop[n].at = "found"
    BY <1>14 DEF Confirm, VerifyMisses
  <2>2. PICK m \in Peers, ip \in Address : loop[n].from = m /\ loop[n].ip = ip
    BY <1>0, <2>1, VerifyingTypes
  <2>3. Send(n, m, Msg("ack", ip)) \/ Send(n, m, Msg("nack", ip))
    BY <1>14, <2>2 DEF Confirm, VerifyMisses
  <2>4. /\ Msg("nack", ip) \in Message /\ Msg("nack", ip).act = "nack"
        /\ Msg("ack", ip) \in Message /\ Msg("ack", ip).act = "ack"
    BY MessageTypes DEF Msg
  <2>5. QED
    BY <1>3, <2>3, <2>4
<1>15. ASSUME NEW n \in Peers, Leave(n) PROVE Good
  <2>1. \/ msg \in ToSet(net[<< p, q >>])
        \/ p = n /\ q \in peers[n] /\ msg = Msg("disconnect", localIP[n])
    BY <1>0, <1>15, LeaveElements
  <2>2. Msg("disconnect", localIP[n]).act = "disconnect"
    BY DEF Msg
  <2>3. QED
    BY <2>1, <2>2
<1>16. ASSUME UNCHANGED vars PROVE UNCHANGED net
  BY <1>16 DEF vars, steamVars
<1>17. UNCHANGED net => Good
  BY <1>1
<1> HIDE DEF Good
<1>18. Good
  BY <1>6, <1>7, <1>8, <1>9, <1>10, <1>11, <1>12, <1>13, <1>14, <1>15, <1>16, <1>17
  DEF Next, StartStep, ReadLoopStep, TimerStep, GateStep, Reopen, Crash
<1>19. QED
  BY <1>18 DEF Good

\* What a node may undo it gave up, or was asked for.
LEMMA SpoilSteps ==
  ASSUME TypeOK, [Next]_vars, NEW h \in Peers, NEW n \in spoiled'[h]
  PROVE  n \in spoiled[h] \/ n \in gaveUp'[h] \/ OnRequestIP(h, n)
<1> DEFINE Good == n \in spoiled[h] \/ n \in gaveUp'[h] \/ OnRequestIP(h, n)
<1>0. /\ spoiled \in [Peers -> SUBSET Peers] /\ gaveUp \in [Peers -> SUBSET Peers]
  BY DEF TypeOK, HistoryTypes
<1>1. UNCHANGED spoiled => Good
  OBVIOUS
<1>2. ASSUME NEW a \in Peers, NEW ms, GiveUpOn(a, ms) PROVE Good
  BY <1>0, <1>2 DEF GiveUpOn, Farewell
<1>3. ASSUME NEW a \in Peers, NEW b \in Peers, OnRequestIP(a, b) PROVE Good
  <2>1. Farewell(a, {b}) \/ Offered(a, b)
    BY <1>3 DEF OnRequestIP
  <2>2. \/ spoiled' = [spoiled EXCEPT ![a] = @ \cup {b}]
        \/ spoiled' = [spoiled EXCEPT ![b] = @ \ {a}]
        \/ UNCHANGED spoiled
    BY <2>1 DEF Farewell, Offered
  <2>3. n \in spoiled[h] \/ (a = h /\ b = n)
    BY <1>0, <2>2
  <2>4. QED
    BY <1>3, <2>3
<1>4. ASSUME NEW a \in Peers, NEW b \in Peers, OnOfferIP(a, b)
      PROVE  UNCHANGED spoiled \/ GiveUpOn(a, {b})
  BY <1>4 DEF OnOfferIP, farewellVars
<1>5. ASSUME NEW a \in Peers, VerifyMisses(a) PROVE GiveUpOn(a, {loop[a].from})
  BY <1>5 DEF VerifyMisses
<1>6. ASSUME NEW a \in Peers, Leave(a) PROVE GiveUpOn(a, peers[a])
  BY <1>6 DEF Leave
<1>7. ASSUME NEW a \in Peers,
             StartStep(a) \/ Close(a) \/ Forget(a) \/ VerifyFinds(a) \/ Confirm(a)
      PROVE  UNCHANGED spoiled
  BY <1>7
  DEF StartStep, Start, RequestBootstrap, AssignHostIP, RecordHostIP, Close, Forget,
      VerifyFinds, Confirm, historyVars, farewellVars
<1>8. ASSUME NEW a \in Peers, NEW b \in Peers,
             \/ CheckJoin(a, b) \/ Join(a, b) \/ JoinRequest(a, b) \/ LoopJoin(a, b)
             \/ LoopRequest(a, b) \/ TimerStep(a, b) \/ GateStep(a, b)
             \/ OnAckIP(a, b) \/ OnNackIP(a, b) \/ OnDisconnect(a, b)
      PROVE  UNCHANGED spoiled
  BY <1>8
  DEF CheckJoin, Join, JoinRequest, LoopJoin, LoopRequest, TimerStep, JoinTimeout, RetryTick,
      RetrySend, GhostAsk, GhostEnds, GateStep, Ask, Accept, Deny, Drop, OnAckIP, OnNackIP,
      OnDisconnect, historyVars, farewellVars
<1>9. ASSUME UNCHANGED vars PROVE UNCHANGED spoiled
  BY <1>9 DEF vars, historyVars, farewellVars
<1> HIDE DEF Good
<1>10. Good
  BY <1>1, <1>2, <1>3, <1>4, <1>5, <1>6, <1>7, <1>8, <1>9
  DEF Next, ReadLoopStep, Reopen, Crash
<1>11. QED
  BY <1>10 DEF Good

\* Every step asks, offers and leases only where it is meant.
LEMMA MeantStep ==
  ASSUME TypeOK, OnlyTheMeantAreAsked, [Next]_vars
  PROVE  OnlyTheMeantAreAsked'
<1>0. /\ SteamTypes
      /\ \A n, m \in Peers : << n, m >> \in Pairs /\ net[<< n, m >>] \in Seq(Message)
  BY DEF TypeOK, SteamTypes, Pairs
<1>1. ASSUME NEW p \in Peers, NEW q \in Peers, net[<< p, q >>] # << >>
      PROVE  MeantMessage(p, q, Head(net[<< p, q >>]))
  BY <1>0, <1>1, TailElements DEF OnlyTheMeantAreAsked
<1>2. ASSUME NEW n \in Peers, NEW h \in Peers, IsAsking(n, h)' PROVE h \in MayAsk(n)
  <2>1. CASE CheckJoin(n, h) \/ LoopJoin(n, h)
    BY <2>1 DEF CheckJoin, LoopJoin, MayAsk
  <2>2. CASE IsAsking(n, h)
    BY <2>2 DEF OnlyTheMeantAreAsked
  <2>3. QED
    BY <1>2, <2>1, <2>2, AskingSteps
<1>3. ASSUME NEW p \in Peers, NEW q \in Peers, Asks(p, q) PROVE q \in MayAsk(p)
  <2>1. CASE RequestBootstrap(p) /\ Bootstrap[p] = q
    BY <2>1, HandshakeAssumption DEF MayAsk
  <2>2. CASE JoinRequest(p, q) \/ LoopRequest(p, q) \/ RetrySend(p, q) \/ GhostAsk(p, q)
    <3>1. IsAsking(p, q)
      BY <2>2 DEF JoinRequest, LoopRequest, RetrySend, GhostAsk, IsAsking
    <3>2. QED
      BY <3>1 DEF OnlyTheMeantAreAsked
  <2>3. QED
    BY <1>3, <2>1, <2>2 DEF Asks
<1>4. ASSUME NEW h \in Peers, NEW n \in Peers, OnRequestIP(h, n) PROVE h \in MayAsk(n)
  BY <1>1, <1>4 DEF OnRequestIP, CanReceive, MeantMessage
<1>5. ASSUME NEW p \in Peers, NEW q \in Peers, NEW msg \in ToSet(net'[<< p, q >>])
      PROVE  MeantMessage(p, q, msg)
  <2>1. CASE msg \in ToSet(net[<< p, q >>])
    BY <2>1 DEF OnlyTheMeantAreAsked
  <2>2. CASE msg.act = "request" /\ Asks(p, q)
    <3>1. q \in MayAsk(p)
      BY <1>3, <2>2
    <3>2. QED
      BY <2>2, <3>1 DEF MeantMessage
  <2>3. CASE msg.act = "offer" /\ OnRequestIP(p, q)
    BY <1>4, <2>3 DEF MeantMessage
  <2>4. CASE msg.act \in {"ack", "nack", "disconnect"}
    BY <2>4 DEF MeantMessage
  <2>5. QED
    BY <2>1, <2>2, <2>3, <2>4, MessageSteps
<1>6. ASSUME NEW n \in Peers, OnOffer(loop'[n]) PROVE loop'[n].from \in MayAsk(n)
  <2>1. CASE loop'[n] = loop[n]
    BY <1>6, <2>1 DEF OnlyTheMeantAreAsked
  <2>2. ASSUME NEW m \in Peers, NEW ip, OnOfferIP(n, m), loop'[n] = Verifying(m, ip)
        PROVE  loop'[n].from \in MayAsk(n)
    <3>1. loop'[n].from = m
      BY <2>2 DEF Verifying
    <3>2. QED
      BY <1>1, <2>2, <3>1 DEF OnOfferIP, CanReceive, MeantMessage
  <2>3. CASE VerifyFinds(n) /\ loop'[n] = Confirming(loop[n].from, loop[n].ip)
    <3>1. loop'[n].from = loop[n].from
      BY <2>3 DEF Confirming
    <3>2. QED
      BY <2>3, <3>1 DEF VerifyFinds, OnOffer, OnlyTheMeantAreAsked
  <2>4. ASSUME NEW m \in Peers, loop'[n] = Idle \/ loop'[n] = Joining(m) PROVE FALSE
    BY <1>6, <2>4 DEF OnOffer, Idle, Joining
  <2>5. QED
    BY <2>1, <2>2, <2>3, <2>4, LoopSteps
<1>7. ASSUME NEW h \in Peers, NEW n \in Peers, Holds(pool'[h], n)
      PROVE  h \in MayAsk(n)
  <2>1. Holds(pool[h], n) \/ OnRequestIP(h, n)
    BY <1>7, LeaseSteps
  <2>2. QED
    BY <1>4, <2>1 DEF OnlyTheMeantAreAsked
<1>8. ASSUME NEW h \in Peers, NEW n \in Peers, n \in spoiled'[h]
      PROVE  n \in gaveUp'[h] \/ h \in MayAsk(n)
  <2>1. n \in spoiled[h] \/ n \in gaveUp'[h] \/ OnRequestIP(h, n)
    BY <1>8, SpoilSteps
  <2>2. gaveUp[h] \subseteq gaveUp'[h]
    BY HistoryGrows
  <2>3. QED
    BY <1>4, <2>1, <2>2 DEF OnlyTheMeantAreAsked
<1>9. QED
  BY <1>2, <1>5, <1>6, <1>7, <1>8 DEF OnlyTheMeantAreAsked, MeantMessage, OnOffer

\* The address of an interface is an offer's, or no lease.
LEMMA DeviceSteps ==
  ASSUME TypeOK, [Next]_vars, NEW n \in Peers
  PROVE  \/ devIP'[n] = devIP[n] \/ devIP'[n] \notin Addr
         \/ \E h \in Peers : OnOfferIP(n, h) /\ devIP'[n] = Head(net[<< h, n >>]).ip
<1> DEFINE Good == \/ devIP'[n] = devIP[n] \/ devIP'[n] \notin Addr
                   \/ \E h \in Peers : OnOfferIP(n, h) /\ devIP'[n] = Head(net[<< h, n >>]).ip
<1>0. /\ devIP \in [Peers -> Address] /\ NoIP \notin Addr /\ HostIP \notin Addr
      /\ SetIPOutcomes \subseteq {"set", "unchanged", "flushed", "half"}
  BY NoIPApart, PoolAssumption, HandshakeAssumption DEF TypeOK, ClientTypes, Addr
<1>1. ASSUME NEW a \in Peers, AssignHostIP(a) PROVE Good
  <2>1. PICK outc \in SetIPOutcomes : devIP' = [devIP EXCEPT ![a] = DeviceAfter(outc, devIP[a], HostIP)]
    BY <1>1 DEF AssignHostIP
  <2>2. DeviceAfter(outc, devIP[a], HostIP) \in {HostIP, devIP[a], NoIP}
    BY <1>0 DEF DeviceAfter
  <2>3. QED
    BY <1>0, <2>1, <2>2
<1>2. ASSUME NEW a \in Peers, NEW b \in Peers, OnOfferIP(a, b) PROVE Good
  <2>. PICK ip : ip = Head(net[<< b, a >>]).ip
    OBVIOUS
  <2>1. PICK outc \in SetIPOutcomes : devIP' = [devIP EXCEPT ![a] = DeviceAfter(outc, devIP[a], ip)]
    BY <1>2 DEF OnOfferIP
  <2>2. DeviceAfter(outc, devIP[a], ip) \in {ip, devIP[a], NoIP}
    BY <1>0 DEF DeviceAfter
  <2>3. CASE a = n
    <3>1. devIP'[n] \in {ip, devIP[n], NoIP}
      BY <1>0, <2>1, <2>2, <2>3
    <3>2. QED
      BY <1>0, <1>2, <2>3, <3>1
  <2>4. CASE a # n
    BY <1>0, <2>1, <2>4
  <2>5. QED
    BY <2>3, <2>4
<1>3. ASSUME NEW a \in Peers, Forget(a) PROVE Good
  BY <1>0, <1>3 DEF Forget
<1>4. ASSUME NEW a \in Peers,
             \/ Start(a) \/ RequestBootstrap(a) \/ RecordHostIP(a) \/ Leave(a) \/ Close(a)
             \/ VerifyFinds(a) \/ Confirm(a) \/ VerifyMisses(a)
      PROVE  UNCHANGED devIP
  BY <1>4
  DEF Start, RequestBootstrap, RecordHostIP, Leave, Close, VerifyFinds, Confirm, VerifyMisses,
      clientVars
<1>5. ASSUME NEW a \in Peers, NEW b \in Peers,
             \/ CheckJoin(a, b) \/ Join(a, b) \/ JoinRequest(a, b) \/ LoopJoin(a, b)
             \/ LoopRequest(a, b) \/ TimerStep(a, b) \/ GateStep(a, b)
      PROVE  UNCHANGED devIP
  BY <1>5
  DEF CheckJoin, Join, JoinRequest, LoopJoin, LoopRequest, TimerStep, JoinTimeout, RetryTick,
      RetrySend, GhostAsk, GhostEnds, GateStep, Ask, Accept, Deny, Drop, clientVars
<1>6. ASSUME NEW a \in Peers, NEW b \in Peers,
             OnRequestIP(a, b) \/ OnAckIP(a, b) \/ OnNackIP(a, b) \/ OnDisconnect(a, b)
      PROVE  UNCHANGED devIP
  BY <1>6 DEF OnRequestIP, OnAckIP, OnNackIP, OnDisconnect, clientVars
<1>7. ASSUME UNCHANGED vars PROVE UNCHANGED devIP
  BY <1>7 DEF vars, clientVars
<1>8. UNCHANGED devIP => Good
  OBVIOUS
<1> HIDE DEF Good
<1>9. Good
  BY <1>1, <1>2, <1>3, <1>4, <1>5, <1>6, <1>7, <1>8
  DEF Next, StartStep, ReadLoopStep, Reopen, Crash
<1>10. QED
  BY <1>9 DEF Good

-----------------------------------------------------------------------------
(***************************************************************************)
(* Where one host serves the overlay, every leased address on an           *)
(* interface, in a packet or in a table is kept by that host's pool.       *)
(***************************************************************************)
ServesAlone(h) ==
  \A n \in Peers : MayJoin[n] \cup MayClick[n] \subseteq {h} /\ Bootstrap[n] \in {h, NoPeer}

\* The pool of h holds the address for n, unless h restarted or n ever gave
\* it up.
KeptFor(n, h, ip) == restarts[h] = 0 /\ h \notin gaveUp[n] => pool[h].leases[n] = ip

RoutesBacked(h) ==
  /\ \A n \in Peers : devIP[n] \in Addr => KeptFor(n, h, devIP[n])
  /\ \A p \in data : p.src \in Addr => KeptFor(p.from, h, p.src)
  /\ \A n \in Peers : \A ip \in Addr :
       table[n][ip] # NoPeer => KeptFor(table[n][ip], h, ip)

RouteInv(h) ==
  /\ OverlayTypeOK /\ AddressInv /\ OnlyTheMeantAreAsked
  /\ RoutesBacked(h)

\* Data moves no address, no request and no lease.
LEMMA DataEffects ==
  ASSUME DataStep
  PROVE  /\ UNCHANGED << pool, pending, localIP, devIP, loop, call, sending, ghosts, net >>
         /\ UNCHANGED << gaveUp, spoiled, firm, restarts >>
<1>1. ASSUME UNCHANGED vars
      PROVE  /\ UNCHANGED << pool, pending, localIP, devIP, loop, call, sending, ghosts, net >>
             /\ UNCHANGED << gaveUp, spoiled, firm, restarts >>
  BY <1>1 DEF vars, clientVars, timerVars, attemptVars, steamVars, historyVars,
         farewellVars
<1>2. ASSUME NEW n \in Peers, NEW dst, NEW port, Egress(n, dst, port)
      PROVE  /\ UNCHANGED << pool, pending, localIP, devIP, loop, call, sending, ghosts, net >>
             /\ UNCHANGED << gaveUp, spoiled, firm, restarts >>
  BY <1>2 DEF Egress, clientVars, timerVars, attemptVars, historyVars, farewellVars
<1>3. ASSUME NEW n \in Peers, NEW p \in data, Ingress(n, p) \/ AskForData(n, p)
      PROVE  /\ UNCHANGED << pool, pending, localIP, devIP, loop, call, sending, ghosts, net >>
             /\ UNCHANGED << gaveUp, spoiled, firm, restarts >>
  BY <1>3
  DEF Ingress, TakeData, AskForData, clientVars, timerVars, attemptVars, steamVars, historyVars,
      farewellVars
<1>4. QED
  BY <1>1, <1>2, <1>3 DEF DataStep, Configure, Lose

\* The handshake's invariants survive data.
LEMMA HandshakeInvariants ==
  ASSUME OverlayTypeOK, AddressInv, OnlyTheMeantAreAsked, [OverlayNext]_overlayVars
  PROVE  OverlayTypeOK' /\ AddressInv' /\ OnlyTheMeantAreAsked'
<1>1. OverlayTypeOK'
  BY OverlayTypeStep
<1>2. CASE [Next]_vars
  BY <1>1, <1>2, AddressStep, MeantStep DEF OverlayTypeOK
<1>3. CASE DataStep
  <2>1. /\ UNCHANGED << pool, pending, localIP, devIP, loop, call, sending, ghosts, net >>
        /\ UNCHANGED << gaveUp, spoiled, firm, restarts >>
    BY <1>3, DataEffects
  <2>2. PoolsSound' /\ OffersBacked' /\ VerifyBacked' /\ RecordBacked'
    BY <2>1
    DEF AddressInv, PoolsSound, OffersBacked, GoodMessage, VerifyBacked, RecordBacked, Backed
  <2>3. OnlyTheMeantAreAsked'
    BY <2>1 DEF OnlyTheMeantAreAsked, IsAsking, MeantMessage, MayAsk
  <2>4. QED
    BY <1>1, <2>2, <2>3 DEF AddressInv, OverlayTypeOK
<1>4. [Next]_vars \/ DataStep
  BY DEF OverlayNext, ControlStep, overlayVars
<1>5. QED
  BY <1>2, <1>3, <1>4

\* Nobody who serves alone is refused by its guests, so what an offer backs is
\* kept; and what is kept stays so until it is given up.
LEMMA KeptStays ==
  ASSUME NEW h \in Peers, ServesAlone(h), AddressInv, OnlyTheMeantAreAsked, [Next]_vars,
         NEW n \in Peers, NEW ip \in Addr
  PROVE  /\ Backed(n, h, ip) => KeptFor(n, h, ip)
         /\ KeptFor(n, h, ip) => KeptFor(n, h, ip)'
<1>1. MayAsk(h) = {}
  BY HandshakeAssumption DEF MayAsk, ServesAlone
<1>2. h \notin gaveUp[n] => h \notin spoiled[n]
  BY <1>1 DEF OnlyTheMeantAreAsked
<1>3. gaveUp[n] \subseteq gaveUp'[n] /\ LeasesKept
  BY HistoryGrows, StepKeepsLeases DEF AddressInv
<1>4. ip # NoIP
  BY NoIPApart
<1>5. QED
  BY <1>2, <1>3, <1>4 DEF Backed, KeptFor, LeasesKept

\* An address on an interface, in a packet or in a table stays kept.
LEMMA ControlKeepsRoutes ==
  ASSUME NEW h \in Peers, ServesAlone(h), RouteInv(h), [Next]_vars,
         data' \subseteq data,
         \A n \in Peers : table'[n] \in {table[n], EmptyTable}
  PROVE  RoutesBacked(h)'
<1>0. /\ TypeOK /\ AddressInv
      /\ data \subseteq Packet
      /\ table \in [Peers -> [Address -> Peers \cup {NoPeer}]]
  BY DEF RouteInv, OverlayTypeOK, RouterTypes
<1>00. ASSUME NEW n \in Peers, NEW ip \in Addr
       PROVE  /\ Backed(n, h, ip) => KeptFor(n, h, ip)
              /\ KeptFor(n, h, ip) => KeptFor(n, h, ip)'
  BY KeptStays DEF RouteInv
<1>1. ASSUME NEW n \in Peers, devIP'[n] \in Addr PROVE KeptFor(n, h, devIP[n])'
  <2>. PICK ip \in Addr : ip = devIP'[n]
    BY <1>1
  <2>1. KeptFor(n, h, ip)
    <3>1. CASE ip = devIP[n]
      BY <1>1, <3>1 DEF RouteInv, RoutesBacked
    <3>2. ASSUME NEW g \in Peers, OnOfferIP(n, g), ip = Head(net[<< g, n >>]).ip
          PROVE  KeptFor(n, h, ip)
      <4>1. PICK msg : /\ msg \in ToSet(net[<< g, n >>])
                       /\ msg.act = "offer" /\ msg.ip = ip
        <5>1. /\ net[<< g, n >>] # << >> /\ net[<< g, n >>] \in Seq(Message)
              /\ Head(net[<< g, n >>]).act = "offer"
          BY <1>0, <3>2 DEF OnOfferIP, CanReceive, TypeOK, SteamTypes, Pairs
        <5>2. QED
          BY <3>2, <5>1, TailElements
      <4>2. Backed(n, g, ip)
        BY <1>0, <4>1 DEF AddressInv, OffersBacked, GoodMessage
      <4>3. g \in MayAsk(n)
        BY <4>1 DEF RouteInv, OnlyTheMeantAreAsked, MeantMessage
      <4>4. g = h
        BY <4>3 DEF ServesAlone, MayAsk
      <4>5. QED
        BY <1>00, <4>2, <4>4
    <3>3. QED
      BY <1>0, <1>1, <3>1, <3>2, DeviceSteps
  <2>2. KeptFor(n, h, ip)'
    BY <1>00, <2>1
  <2>3. QED
    BY <2>2 DEF KeptFor
<1>2. ASSUME NEW p \in data', p.src \in Addr PROVE KeptFor(p.from, h, p.src)'
  <2>. PICK ip \in Addr : ip = p.src
    BY <1>2
  <2>. PICK n \in Peers : n = p.from
    BY <1>0 DEF Packet
  <2>1. KeptFor(n, h, ip)
    BY <1>2 DEF RouteInv, RoutesBacked
  <2>2. KeptFor(n, h, ip)'
    BY <1>00, <2>1
  <2>3. QED
    BY <2>2
<1>3. ASSUME NEW n \in Peers, NEW ip \in Addr, table'[n][ip] # NoPeer
      PROVE  KeptFor(table[n][ip], h, ip)'
  <2>1. ip \in Address
    BY DEF Address
  <2>2. PICK m \in Peers : m = table[n][ip] /\ m = table'[n][ip]
    BY <1>0, <1>3, <2>1 DEF EmptyTable
  <2>3. KeptFor(m, h, ip)
    <3>1. table[n][ip] # NoPeer
      BY <2>2, HandshakeAssumption
    <3>2. KeptFor(table[n][ip], h, ip)
      BY <3>1 DEF RouteInv, RoutesBacked
    <3>3. QED
      BY <2>2, <3>2
  <2>4. KeptFor(m, h, ip)'
    BY <1>00, <2>3
  <2>5. QED
    BY <2>2, <2>4 DEF KeptFor
<1>4. QED
  BY <1>1, <1>2, <1>3 DEF RoutesBacked

\* A packet carries the address of its sender's interface, and binds no other.
LEMMA DataKeepsRoutes ==
  ASSUME NEW h \in Peers, RouteInv(h), DataStep
  PROVE  RoutesBacked(h)'
<1>0. /\ data \subseteq Packet
      /\ table \in [Peers -> [Address -> Peers \cup {NoPeer}]]
      /\ Addr \subseteq Address
  BY AddressTypes DEF RouteInv, OverlayTypeOK, RouterTypes
<1>1. /\ UNCHANGED << pool, devIP, gaveUp, restarts >>
      /\ \A n, ip : KeptFor(n, h, ip)' <=> KeptFor(n, h, ip)
  BY DataEffects DEF KeptFor
<1>2. /\ \A n \in Peers : devIP[n] \in Addr => KeptFor(n, h, devIP[n])
      /\ \A p \in data : p.src \in Addr => KeptFor(p.from, h, p.src)
      /\ \A n \in Peers : \A ip \in Addr :
           table[n][ip] # NoPeer => KeptFor(table[n][ip], h, ip)
  BY DEF RouteInv, RoutesBacked
<1>3. ASSUME NEW p \in data', p.src \in Addr PROVE KeptFor(p.from, h, p.src)
  <2>1. CASE p \in data
    BY <1>2, <1>3, <2>1
  <2>2. ASSUME NEW n \in Peers, NEW dst, NEW port, Egress(n, dst, port), p \notin data
        PROVE  KeptFor(p.from, h, p.src)
    <3>1. p.from = n /\ p.src = devIP[n]
      BY <2>2 DEF Egress
    <3>2. QED
      BY <1>2, <1>3, <3>1
  <2>3. ASSUME NEW n \in Peers, NEW q \in data, Ingress(n, q) \/ AskForData(n, q) PROVE p \in data
    BY <2>3 DEF Ingress, TakeData, AskForData, routerVars
  <2>4. ASSUME NEW q \in data, Lose(q) PROVE p \in data
    BY <2>4 DEF Lose
  <2>5. ASSUME NEW n \in Peers, Configure(n) PROVE p \in data
    BY <2>5 DEF Configure
  <2>6. QED
    BY <2>1, <2>2, <2>3, <2>4, <2>5 DEF DataStep
<1>4. ASSUME NEW n \in Peers, NEW ip \in Addr, table'[n][ip] # NoPeer
      PROVE  KeptFor(table'[n][ip], h, ip)
  <2>1. CASE UNCHANGED table
    BY <1>2, <1>4, <2>1
  <2>2. ASSUME NEW m \in Peers, NEW p \in data, Ingress(m, p)
        PROVE  KeptFor(table'[n][ip], h, ip)
    <3>1. p.from \in Peers /\ p.src \in Address
      BY <1>0 DEF Packet
    <3>2. UNCHANGED table \/ table' = [table EXCEPT ![m] = [@ EXCEPT ![p.src] = p.from]]
      BY <2>2 DEF Ingress, Bind
    <3>3. table'[n][ip] = table[n][ip] \/ (ip = p.src /\ table'[n][ip] = p.from)
      BY <1>0, <3>1, <3>2
    <3>4. QED
      BY <1>2, <1>4, <3>3
  <2>3. UNCHANGED table \/ \E m \in Peers, p \in data : Ingress(m, p)
    BY DEF DataStep, Configure, Egress, AskForData, Lose, routerVars
  <2>4. QED
    BY <2>1, <2>2, <2>3
<1>5. QED
  BY <1>1, <1>2, <1>3, <1>4 DEF RoutesBacked

\* The invariant of routes holds throughout.
LEMMA RouteInvariance ==
  ASSUME NEW h \in Peers, ServesAlone(h)
  PROVE  OverlaySpec => []RouteInv(h)
<1>1. OverlayInit => RouteInv(h)
  <2>1. SUFFICES ASSUME OverlayInit PROVE RouteInv(h)
    OBVIOUS
  <2>2. Init /\ TypeOK /\ OverlayTypeOK
    BY <2>1, TypeInit DEF OverlayInit, OverlayTypeOK, RouterTypes, EmptyTable, Silence
  <2>3. AddressInv
    BY <2>2, AddressInit
  <2>4. OnlyTheMeantAreAsked
    <3>1. \A p, q \in Peers : ToSet(net[<< p, q >>]) = {}
      BY <2>2 DEF Init, Pairs, ToSet
    <3>2. /\ \A n \in Peers : ~OnOffer(loop[n]) /\ spoiled[n] = {}
          /\ \A n, m \in Peers : ~Holds(pool[n], m)
      BY <2>2 DEF Init, NewPool, Holds, OnOffer, Idle
    <3>3. \A n, m \in Peers : ~IsAsking(n, m)
      BY <2>2 DEF Init, Pairs, IsAsking, Idle, Joining
    <3>4. QED
      BY <3>1, <3>2, <3>3 DEF OnlyTheMeantAreAsked
  <2>5. RoutesBacked(h)
    <3>1. /\ \A n \in Peers : devIP[n] \notin Addr
          /\ data = {}
          /\ \A n \in Peers : \A ip \in Addr : table[n][ip] = NoPeer
      BY <2>1, <2>2, NoIPApart DEF Init, OverlayInit, EmptyTable, Address
    <3>2. QED
      BY <3>1 DEF RoutesBacked
  <2>6. QED
    BY <2>2, <2>3, <2>4, <2>5 DEF RouteInv
<1>2. RouteInv(h) /\ [OverlayNext]_overlayVars => RouteInv(h)'
  <2>1. SUFFICES ASSUME RouteInv(h), [OverlayNext]_overlayVars PROVE RouteInv(h)'
    OBVIOUS
  <2>2. OverlayTypeOK' /\ AddressInv' /\ OnlyTheMeantAreAsked'
    BY <2>1, HandshakeInvariants DEF RouteInv
  <2>3. CASE DataStep
    BY <2>1, <2>2, <2>3, DataKeepsRoutes DEF RouteInv
  <2>4. CASE ControlStep
    <3>1. \A n \in Peers : table'[n] \in {table[n], EmptyTable}
      BY <2>4 DEF ControlStep
    <3>2. QED
      BY <2>1, <2>2, <2>4, <3>1, ControlKeepsRoutes DEF ControlStep, RouteInv
  <2>5. CASE UNCHANGED overlayVars
    <3>1. UNCHANGED vars /\ UNCHANGED << table, data >>
      BY <2>5 DEF overlayVars, routerVars
    <3>2. QED
      BY <2>1, <2>2, <3>1, ControlKeepsRoutes DEF RouteInv
  <2>6. QED
    BY <2>1, <2>3, <2>4, <2>5 DEF OverlayNext
<1>3. QED
  BY <1>1, <1>2, PTL DEF OverlaySpec

(***************************************************************************)
(* Where all ask one host, every node binds an address leased by it to the *)
(* holder or to nobody, as long as the host lives on and nobody has        *)
(* refused or left it (router.go l.62-65, 100-109, client.go l.305-355):   *)
(* whatever is lost or overtaken, and whoever else crashes and comes back. *)
(* The hypothesis is needed: an address that a host granted before it      *)
(* crashed is still spoken for when another one grants it.                 *)
(***************************************************************************)
THEOREM RoutesAreTrue ==
  ASSUME NEW h \in Peers, ServesAlone(h)
  PROVE  OverlaySpec => []RoutesLeadToHolder
<1>1. RouteInv(h) => RoutesLeadToHolder
  <2>1. SUFFICES ASSUME RouteInv(h), NEW g \in Peers, NEW n \in Peers, NEW m \in Peers,
                        SteadyHost(g), Holds(pool[g], m),
                        table[n][pool[g].leases[m]] # NoPeer
                 PROVE  table[n][pool[g].leases[m]] = m
    BY DEF RoutesLeadToHolder
  <2>. PICK ip : ip = pool[g].leases[m]
    OBVIOUS
  <2>2. g = h
    <3>1. g \in MayAsk(m)
      BY <2>1 DEF RouteInv, OnlyTheMeantAreAsked
    <3>2. QED
      BY <3>1 DEF ServesAlone, MayAsk
  <2>3. ip \in Addr /\ ip # NoIP /\ ip \in Address
    <3>1. pool[h].leases \in [Peers -> Addr \cup {NoIP}]
      BY <2>1, PoolParts DEF RouteInv, OverlayTypeOK, TypeOK, ClientTypes
    <3>2. QED
      BY <2>1, <2>2, <3>1, AddressTypes DEF Holds
  <2>4. PICK x \in Peers : x = table[n][ip]
    BY <2>1, <2>3 DEF RouteInv, OverlayTypeOK, RouterTypes
  <2>5. KeptFor(x, h, ip)
    BY <2>1, <2>3, <2>4 DEF RouteInv, RoutesBacked
  <2>6. pool[h].leases[x] = ip
    BY <2>1, <2>2, <2>5 DEF SteadyHost, KeptFor
  <2>7. NoDoubleLeaseIn(pool[h])
    BY <2>1 DEF RouteInv, AddressInv, PoolsSound, PoolSound
  <2>8. QED
    BY <2>1, <2>2, <2>3, <2>4, <2>6, <2>7 DEF NoDoubleLeaseIn, Holds
<1>2. OverlaySpec => []RouteInv(h)
  BY RouteInvariance
<1>3. QED
  BY <1>1, <1>2, PTL
=============================================================================
