------------------------ MODULE JoinHandshakeProofs ------------------------
(***************************************************************************)
(* Theorems of JoinHandshake, for every set of nodes, every address range  *)
(* and every choice of users, friends and faults.                          *)
(***************************************************************************)
EXTENDS JoinHandshake, IpamProofs

-----------------------------------------------------------------------------
(***************************************************************************)
(* Queues: what each way of touching the network leaves in them.           *)
(***************************************************************************)

\* The elements of a sequence after an append, and without its head.
LEMMA QueueElements ==
  ASSUME NEW S, NEW s \in Seq(S), NEW e \in S
  PROVE  /\ Append(s, e) \in Seq(S)
         /\ ToSet(Append(s, e)) = ToSet(s) \cup {e}
         /\ s # << >> => /\ Tail(s) \in Seq(S)
                         /\ Head(s) \in S
                         /\ ToSet(s) = {Head(s)} \cup ToSet(Tail(s))
<1>1. /\ Append(s, e) \in Seq(S)
      /\ Len(Append(s, e)) = Len(s) + 1
      /\ \A i \in 1 .. Len(s) : Append(s, e)[i] = s[i]
      /\ Append(s, e)[Len(s) + 1] = e
  BY AppendProperties
<1>2. /\ DOMAIN s = 1 .. Len(s) /\ Len(s) \in Nat
      /\ DOMAIN Append(s, e) = 1 .. Len(s) + 1
  BY <1>1, LenProperties
<1>3. ToSet(Append(s, e)) = ToSet(s) \cup {e}
  BY <1>1, <1>2 DEF ToSet
<1>4. QED
  BY <1>1, <1>3, TailElements

\* Sending one message adds it to one queue.
LEMMA SendElements ==
  ASSUME SteamTypes, NEW n \in Peers, NEW m \in Peers, NEW msg \in Message,
         Send(n, m, msg)
  PROVE  /\ net' \in [Pairs -> Seq(Message)]
         /\ session' \in [Peers -> SUBSET Peers]
         /\ \A p \in Pairs : ToSet(net'[p]) =
              ToSet(net[p]) \cup (IF p = << n, m >> THEN {msg} ELSE {})
<1>1. << n, m >> \in Pairs /\ net[<< n, m >>] \in Seq(Message)
  BY DEF Pairs, SteamTypes
<1>2. /\ Append(net[<< n, m >>], msg) \in Seq(Message)
      /\ ToSet(Append(net[<< n, m >>], msg)) = ToSet(net[<< n, m >>]) \cup {msg}
  BY <1>1, QueueElements
<1>3. QED
  BY <1>1, <1>2 DEF Send, SteamTypes

\* Taking a message leaves what was behind it.
LEMMA TakeElements ==
  ASSUME SteamTypes, NEW n \in Peers, NEW m \in Peers, net[<< m, n >>] # << >>,
         Take(n, m)
  PROVE  /\ net' \in [Pairs -> Seq(Message)]
         /\ \A p \in Pairs : ToSet(net'[p]) \subseteq ToSet(net[p])
<1>1. << m, n >> \in Pairs /\ net[<< m, n >>] \in Seq(Message)
  BY DEF Pairs, SteamTypes
<1>2. Msg("request", NoIP) \in Message
  BY DEF Msg, Message, Action, Address
<1>3. /\ Tail(net[<< m, n >>]) \in Seq(Message)
      /\ ToSet(Tail(net[<< m, n >>])) \subseteq ToSet(net[<< m, n >>])
  BY <1>1, <1>2, QueueElements
<1>4. QED
  BY <1>1, <1>3 DEF Take, SteamTypes

\* Taking a message and answering it does both.
LEMMA AnswerElements ==
  ASSUME SteamTypes, NEW n \in Peers, NEW m \in Peers, NEW msg \in Message,
         net[<< m, n >>] # << >>, TakeAndAnswer(n, m, msg)
  PROVE  /\ net' \in [Pairs -> Seq(Message)]
         /\ \A p \in Pairs : ToSet(net'[p]) \subseteq
              ToSet(net[p]) \cup (IF p = << n, m >> THEN {msg} ELSE {})
<1> DEFINE mid == [net EXCEPT ![<< m, n >>] = Tail(net[<< m, n >>])]
<1>1. /\ << m, n >> \in Pairs /\ net[<< m, n >>] \in Seq(Message)
      /\ << n, m >> \in Pairs
  BY DEF Pairs, SteamTypes
<1>2. /\ Tail(net[<< m, n >>]) \in Seq(Message)
      /\ ToSet(Tail(net[<< m, n >>])) \subseteq ToSet(net[<< m, n >>])
  BY <1>1, QueueElements
<1>3. /\ mid \in [Pairs -> Seq(Message)]
      /\ \A p \in Pairs : ToSet(mid[p]) \subseteq ToSet(net[p])
  BY <1>1, <1>2 DEF SteamTypes
<1>4. net' = [mid EXCEPT ![<< n, m >>] = Append(mid[<< n, m >>], msg)]
  BY DEF TakeAndAnswer
<1> HIDE DEF mid
<1>5. /\ Append(mid[<< n, m >>], msg) \in Seq(Message)
      /\ ToSet(Append(mid[<< n, m >>], msg)) = ToSet(mid[<< n, m >>]) \cup {msg}
  <2>1. mid[<< n, m >>] \in Seq(Message)
    BY <1>1, <1>3
  <2>2. QED
    BY <2>1, QueueElements
<1>6. QED
  BY <1>1, <1>3, <1>4, <1>5

-----------------------------------------------------------------------------
(***************************************************************************)
(* Type correctness.                                                       *)
(***************************************************************************)

\* The messages the handlers send are messages.
LEMMA MessageTypes ==
  /\ Msg("request", NoIP) \in Message
  /\ Msg("nack", NoIP) \in Message
  /\ \A ip \in Address : /\ Msg("offer", ip) \in Message
                          /\ Msg("ack", ip) \in Message
                          /\ Msg("nack", ip) \in Message
                          /\ Msg("disconnect", ip) \in Message
  BY DEF Msg, Message, Action, Address

\* Asking sends a request, or nothing.
LEMMA AskElements ==
  ASSUME SteamTypes, HistoryTypes, NEW n \in Peers, NEW m \in Peers, AskFor(n, m)
  PROVE  /\ net' \in [Pairs -> Seq(Message)]
         /\ session' \in [Peers -> SUBSET Peers]
         /\ told' \in [Peers -> SUBSET Peers]
<1>1. CASE Running(n)
  <2>1. Send(n, m, Msg("request", NoIP)) /\ told' = [told EXCEPT ![n] = @ \ {m}]
    BY <1>1 DEF AskFor
  <2>2. told' \in [Peers -> SUBSET Peers]
    BY <2>1 DEF HistoryTypes
  <2>3. QED
    BY <2>1, <2>2, SendElements, MessageTypes
<1>2. CASE ~Running(n)
  BY <1>2 DEF AskFor, SteamTypes, HistoryTypes
<1>3. QED
  BY <1>1, <1>2

\* Of the history, asking changes only who has been told.
LEMMA AskHistory ==
  ASSUME SteamTypes, HistoryTypes, NEW n \in Peers, NEW m \in Peers, AskFor(n, m),
         UNCHANGED << source, farewellVars, restarts >>
  PROVE  HistoryTypes'
BY AskElements DEF HistoryTypes, farewellVars

\* Taking an address keeps the types of what it touches.
LEMMA AdoptTypes ==
  ASSUME ClientTypes, HistoryTypes, NEW n \in Peers, NEW m \in Peers \cup {NoPeer},
         NEW ip \in Address, Adopt(n, m, ip)
  PROVE  /\ localIP' \in [Peers -> Address]
         /\ source' \in [Peers -> Peers \cup {NoPeer}]
         /\ firm' \in [Peers -> Peers \cup {NoPeer}]
<1>1. (IF m \in spoiled[n] THEN NoPeer ELSE m) \in Peers \cup {NoPeer}
  OBVIOUS
<1>2. QED
  BY <1>1 DEF Adopt, ClientTypes, HistoryTypes

\* So do a farewell and an offer.
LEMMA FarewellTypes ==
  ASSUME HistoryTypes, NEW n \in Peers, NEW ms \in SUBSET Peers, Farewell(n, ms)
  PROVE  /\ spoiled' \in [Peers -> SUBSET Peers]
         /\ firm' \in [Peers -> Peers \cup {NoPeer}]
<1>1. (IF firm[n] \in ms THEN NoPeer ELSE firm[n]) \in Peers \cup {NoPeer}
  BY DEF HistoryTypes
<1>2. QED
  BY <1>1 DEF Farewell, HistoryTypes

LEMMA GiveUpTypes ==
  ASSUME HistoryTypes, NEW n \in Peers, NEW ms \in SUBSET Peers, GiveUpOn(n, ms)
  PROVE  /\ gaveUp' \in [Peers -> SUBSET Peers]
         /\ spoiled' \in [Peers -> SUBSET Peers]
         /\ firm' \in [Peers -> Peers \cup {NoPeer}]
<1>1. gaveUp' \in [Peers -> SUBSET Peers]
  BY DEF GiveUpOn, HistoryTypes
<1>2. QED
  BY <1>1, FarewellTypes DEF GiveUpOn

LEMMA OfferedTypes ==
  ASSUME HistoryTypes, NEW n \in Peers, NEW m \in Peers, Offered(n, m)
  PROVE  spoiled' \in [Peers -> SUBSET Peers]
<1>1. CASE StartsAfresh(n, m)
  BY <1>1 DEF Offered, HistoryTypes
<1>2. CASE ~StartsAfresh(n, m)
  BY <1>2 DEF Offered, HistoryTypes
<1>3. QED
  BY <1>1, <1>2

\* The addresses in play are addresses.
LEMMA AddressTypes == NoIP \in Address /\ HostIP \in Address /\ Addr \subseteq Address
  BY DEF Address

\* Resolving a join keeps the types of what it touches.
LEMMA ResolveTypes ==
  ASSUME ClientTypes, ResultTypes, NEW n \in Peers, NEW h \in Peers,
         NEW c \in BOOLEAN, Resolve(n, h, c)
  PROVE  /\ pending' \in [Peers -> SUBSET Peers]
         /\ results' \in [Pairs -> Nat]
         /\ outcome' \in [Pairs -> {"none", "connected", "failed"}]
<1>1. /\ << n, h >> \in Pairs
      /\ pending \in [Peers -> SUBSET Peers]
      /\ results \in [Pairs -> Nat]
      /\ outcome \in [Pairs -> {"none", "connected", "failed"}]
  BY DEF ClientTypes, ResultTypes, Pairs
<1>2. CASE h \in pending[n]
  <2>1. pending' \in [Peers -> SUBSET Peers]
    BY <1>1, <1>2 DEF Resolve
  <2>2. results' \in [Pairs -> Nat]
    BY <1>1, <1>2 DEF Resolve
  <2>3. outcome' \in [Pairs -> {"none", "connected", "failed"}]
    <3>1. outcome' = [outcome EXCEPT ![<< n, h >>] = IF c THEN "connected" ELSE "failed"]
      BY <1>2 DEF Resolve
    <3>2. (IF c THEN "connected" ELSE "failed") \in {"none", "connected", "failed"}
      OBVIOUS
    <3>3. QED
      BY <1>1, <3>1, <3>2
  <2>4. QED
    BY <2>1, <2>2, <2>3
<1>3. CASE h \notin pending[n]
  BY <1>1, <1>3 DEF Resolve
<1>4. QED
  BY <1>2, <1>3

\* A pool keeps its type under both of its operations.
LEMMA PoolTypes ==
  ASSUME NEW p \in Pool, NEW id \in Peers
  PROVE  /\ AfterAllocate(p, id) \in Pool
         /\ AfterRelease(p, id) \in Pool
         /\ Granted(p, id) \in Addr \cup {NoIP}
<1>0. /\ p.hostCounter \in FirstHost .. MaxHost + 1
      /\ p.leases \in [Peers -> Addr \cup {NoIP}]
      /\ p.released \in Seq(Addr)
      /\ FirstHost \in Int /\ MaxHost \in Int
      /\ NoIP \notin Addr
  BY PoolParts, PoolAssumption DEF Pool
<1>1. p.leases[id] \in Addr \cup {NoIP}
  BY <1>0
<1>2. AfterRelease(p, id) \in Pool
  <2>1. CASE ~Holds(p, id)
    BY <2>1 DEF AfterRelease
  <2>2. CASE Holds(p, id)
    <3>1. Append(p.released, p.leases[id]) \in Seq(Addr)
      BY <1>0, <1>1, <2>2, AppendProperties DEF Holds
    <3>2. [p.leases EXCEPT ![id] = NoIP] \in [Peers -> Addr \cup {NoIP}]
      BY <1>0
    <3>3. QED
      BY <1>0, <2>2, <3>1, <3>2 DEF AfterRelease, Pool
  <2>3. QED
    BY <2>1, <2>2
<1>3. CASE Holds(p, id)
  BY <1>1, <1>2, <1>3 DEF Granted, AfterAllocate
<1>4. CASE ~Holds(p, id) /\ p.released # << >>
  <2>1. Head(p.released) \in Addr /\ Tail(p.released) \in Seq(Addr)
    BY <1>0, <1>4, TailElements
  <2>2. /\ Granted(p, id) = Head(p.released)
        /\ AfterAllocate(p, id) =
             [hostCounter |-> p.hostCounter,
              leases |-> [p.leases EXCEPT ![id] = Head(p.released)],
              released |-> Tail(p.released)]
    BY <1>4, AllocateCases
  <2>3. [p.leases EXCEPT ![id] = Head(p.released)] \in [Peers -> Addr \cup {NoIP}]
    BY <1>0, <2>1
  <2>4. QED
    BY <1>0, <1>2, <2>1, <2>2, <2>3 DEF Pool
<1>5. CASE ~Holds(p, id) /\ p.released = << >>
  <2>1. CASE p.hostCounter <= MaxHost
    <3>1. p.hostCounter \in Addr
      BY <1>0, <2>1 DEF Addr
    <3>2. << >> \in Seq(Addr)
      OBVIOUS
    <3>3. p.hostCounter + 1 \in FirstHost .. MaxHost + 1
      BY <1>0, <2>1
    <3>4. /\ Granted(p, id) = p.hostCounter
          /\ AfterAllocate(p, id) =
               [hostCounter |-> p.hostCounter + 1,
                leases |-> [p.leases EXCEPT ![id] = p.hostCounter],
                released |-> << >>]
      BY <1>0, <1>5, <2>1, AllocateCases
    <3>5. [p.leases EXCEPT ![id] = p.hostCounter] \in [Peers -> Addr \cup {NoIP}]
      BY <1>0, <3>1
    <3>6. QED
      BY <1>2, <3>1, <3>2, <3>3, <3>4, <3>5 DEF Pool
  <2>2. CASE ~(p.hostCounter <= MaxHost)
    BY <1>0, <1>2, <1>5, <2>2, AllocateCases
  <2>3. QED
    BY <2>1, <2>2
<1>6. QED
  BY <1>3, <1>4, <1>5

\* SetIP leaves an address, or none, on the interface.
LEMMA DeviceTypes ==
  ASSUME NEW outc \in SetIPOutcomes, NEW old \in Address, NEW ip \in Address
  PROVE  DeviceAfter(outc, old, ip) \in Address
<1>1. outc \in {"set", "unchanged", "flushed", "half"}
  BY HandshakeAssumption
<1>2. CASE outc = "set" \/ outc = "half"
  BY <1>2 DEF DeviceAfter
<1>3. CASE outc = "unchanged"
  BY <1>3 DEF DeviceAfter
<1>4. CASE outc = "flushed"
  BY <1>4, AddressTypes DEF DeviceAfter
<1>5. QED
  BY <1>1, <1>2, <1>3, <1>4

\* The states of a ReadLoop.
LEMMA LoopTypes ==
  /\ Idle \in LoopStates
  /\ \A h \in Peers : Joining(h) \in LoopStates
  /\ \A m \in Peers, ip \in Address :
       Verifying(m, ip) \in LoopStates /\ Confirming(m, ip) \in LoopStates
  BY DEF LoopStates

\* A ReadLoop that verifies or confirms does so for a peer and an address.
LEMMA VerifyingTypes ==
  ASSUME ClientTypes, NEW n \in Peers, loop[n].at = "verify" \/ loop[n].at = "found"
  PROVE  /\ loop[n].from \in Peers
         /\ loop[n].ip \in Address
         /\ loop[n].at = "verify" => loop[n] = Verifying(loop[n].from, loop[n].ip)
         /\ loop[n].at = "found" => loop[n] = Confirming(loop[n].from, loop[n].ip)
<1>1. loop[n] \in LoopStates
  BY DEF ClientTypes
<1>2. loop[n] # Idle
  BY DEF Idle
<1>3. \A h \in Peers : loop[n] # Joining(h)
  BY DEF Joining
<1>4. PICK m \in Peers, ip \in Address : loop[n] = Verifying(m, ip) \/ loop[n] = Confirming(m, ip)
  BY <1>1, <1>2, <1>3 DEF LoopStates
<1>5. QED
  BY <1>4 DEF Verifying, Confirming

\* A node that leaves adds a Disconnect to the queue of every peer it knows.
LEMMA LeaveElements ==
  ASSUME ClientTypes, SteamTypes, NEW n \in Peers, Leave(n)
  PROVE  /\ net' \in [Pairs -> Seq(Message)]
         /\ \A p \in Pairs : ToSet(net'[p]) \subseteq ToSet(net[p]) \cup
              (IF p[1] = n /\ p[2] \in peers[n]
               THEN {Msg("disconnect", localIP[n])} ELSE {})
<1> DEFINE msg == Msg("disconnect", localIP[n])
<1>1. msg \in Message
  BY MessageTypes DEF ClientTypes
<1> HIDE DEF msg
<1>2. net' = [p \in Pairs |->
               IF p[1] = n /\ p[2] \in peers[n]
               THEN Append(net[p], msg) ELSE net[p]]
  BY DEF Leave, msg
<1>3. ASSUME NEW p \in Pairs
      PROVE  /\ Append(net[p], msg) \in Seq(Message)
             /\ ToSet(Append(net[p], msg)) = ToSet(net[p]) \cup {msg}
  <2>1. net[p] \in Seq(Message)
    BY DEF SteamTypes
  <2>2. QED
    BY <1>1, <2>1, QueueElements
<1>4. net' \in [Pairs -> Seq(Message)]
  BY <1>2, <1>3 DEF SteamTypes
<1>5. ASSUME NEW p \in Pairs
      PROVE  ToSet(net'[p]) \subseteq ToSet(net[p]) \cup
               (IF p[1] = n /\ p[2] \in peers[n] THEN {msg} ELSE {})
  BY <1>2, <1>3
<1>6. QED
  BY <1>4, <1>5 DEF msg

\* What a step leaves unchanged keeps its type.
LEMMA UnchangedTypes ==
  ASSUME TypeOK
  PROVE  /\ UNCHANGED life => life' \in [Peers -> Lives]
         /\ UNCHANGED clientVars => ClientTypes'
         /\ UNCHANGED timerVars => TimerTypes'
         /\ UNCHANGED steamVars => SteamTypes'
         /\ UNCHANGED resultVars => ResultTypes'
         /\ UNCHANGED historyVars => HistoryTypes'
  BY DEF TypeOK, ClientTypes, clientVars, TimerTypes, timerVars, attemptVars,
         SteamTypes, steamVars, ResultTypes, resultVars, HistoryTypes, historyVars,
         farewellVars

\* Every step keeps the types.
LEMMA TypeStep ==
  ASSUME TypeOK, [Next]_vars
  PROVE  TypeOK'
<1>0. ClientTypes /\ TimerTypes /\ SteamTypes /\ ResultTypes /\ HistoryTypes
  BY DEF TypeOK
<1>00. /\ life \in [Peers -> Lives]
       /\ {"off", "starting", "assigned", "on", "leaving", "closed"} = Lives
  BY DEF TypeOK, Lives
<1>1. ASSUME NEW n \in Peers, Start(n) PROVE TypeOK'
  <2>1. /\ {Bootstrap[n]} \ {NoPeer} \subseteq Peers
        /\ peers' = [peers EXCEPT ![n] = @ \cup ({Bootstrap[n]} \ {NoPeer})]
    BY <1>1, HandshakeAssumption DEF Start
  <2>2. peers' \in [Peers -> SUBSET Peers]
    BY <1>0, <2>1 DEF ClientTypes
  <2>3. ClientTypes'
    BY <1>0, <1>1, <2>2 DEF Start, ClientTypes
  <2>4. life' \in [Peers -> Lives]
    BY <1>1, <1>00 DEF Start
  <2>5. QED
    BY <1>1, <2>3, <2>4, UnchangedTypes DEF Start, TypeOK
<1>2. ASSUME NEW n \in Peers, RequestBootstrap(n) PROVE TypeOK'
  <2>1. Bootstrap[n] \in Peers /\ AskFor(n, Bootstrap[n])
    BY <1>2, HandshakeAssumption DEF RequestBootstrap
  <2>2. SteamTypes'
    BY <1>0, <1>2, <2>1, AskElements DEF RequestBootstrap, SteamTypes
  <2>3. HistoryTypes'
    BY <1>0, <1>2, <2>1, AskHistory DEF RequestBootstrap
  <2>4. life' \in [Peers -> Lives]
    BY <1>2, <1>00 DEF RequestBootstrap
  <2>5. QED
    BY <1>2, <2>2, <2>3, <2>4, UnchangedTypes DEF RequestBootstrap, TypeOK
<1>23. ASSUME NEW n \in Peers, AssignHostIP(n) PROVE TypeOK'
  <2>1. PICK outc \in SetIPOutcomes :
          /\ devIP' = [devIP EXCEPT ![n] = DeviceAfter(outc, @, HostIP)]
          /\ life' = [life EXCEPT ![n] = IF outc = "set" THEN "assigned" ELSE "on"]
    BY <1>23 DEF AssignHostIP
  <2>2. DeviceAfter(outc, devIP[n], HostIP) \in Address
    BY <1>0, AddressTypes, DeviceTypes DEF ClientTypes
  <2>3. ClientTypes'
    BY <1>0, <1>23, <2>1, <2>2 DEF AssignHostIP, ClientTypes
  <2>4. life' \in [Peers -> Lives]
    BY <1>00, <2>1
  <2>5. QED
    BY <1>23, <2>3, <2>4, UnchangedTypes DEF AssignHostIP, TypeOK
<1>24. ASSUME NEW n \in Peers, RecordHostIP(n) PROVE TypeOK'
  <2>1. /\ localIP' \in [Peers -> Address]
        /\ source' \in [Peers -> Peers \cup {NoPeer}]
        /\ firm' \in [Peers -> Peers \cup {NoPeer}]
    BY <1>0, <1>24, AddressTypes, AdoptTypes DEF RecordHostIP
  <2>2. ClientTypes' /\ HistoryTypes'
    BY <1>0, <1>24, <2>1 DEF RecordHostIP, ClientTypes, HistoryTypes
  <2>3. life' \in [Peers -> Lives]
    BY <1>24, <1>00 DEF RecordHostIP
  <2>4. QED
    BY <1>24, <2>2, <2>3, UnchangedTypes DEF RecordHostIP, TypeOK
<1>28. ASSUME NEW n \in Peers, NEW m \in Peers, CheckJoin(n, m) PROVE TypeOK'
  <2>1. << n, m >> \in Pairs
    BY DEF Pairs
  <2>2. TimerTypes'
    BY <1>0, <1>28, <2>1 DEF CheckJoin, TimerTypes
  <2>3. QED
    BY <1>28, <2>2, UnchangedTypes DEF CheckJoin, TypeOK
<1>3. ASSUME NEW n \in Peers, NEW m \in Peers, Join(n, m) PROVE TypeOK'
  <2>1. << n, m >> \in Pairs
    BY DEF Pairs
  <2>2. ClientTypes'
    BY <1>0, <1>3 DEF Join, Register, ClientTypes
  <2>3. TimerTypes'
    BY <1>0, <1>3, <2>1 DEF Join, TimerTypes
  <2>4. ResultTypes'
    BY <1>0, <1>3, <2>1 DEF Join, Register, ResultTypes
  <2>5. QED
    BY <1>3, <2>2, <2>3, <2>4, UnchangedTypes DEF Join, TypeOK
<1>29. ASSUME NEW n \in Peers, NEW m \in Peers, LoopJoin(n, m) PROVE TypeOK'
  <2>1. << n, m >> \in Pairs
    BY DEF Pairs
  <2>2. ClientTypes'
    BY <1>0, <1>29, LoopTypes DEF LoopJoin, Register, ClientTypes
  <2>3. ResultTypes'
    BY <1>0, <1>29, <2>1 DEF LoopJoin, Register, ResultTypes
  <2>4. QED
    BY <1>29, <2>2, <2>3, UnchangedTypes DEF LoopJoin, TypeOK
<1>30. ASSUME NEW n \in Peers, NEW m \in Peers, LoopRequest(n, m) PROVE TypeOK'
  <2>1. << n, m >> \in Pairs
    BY DEF Pairs
  <2>2. ClientTypes'
    BY <1>0, <1>30, LoopTypes DEF LoopRequest, ClientTypes
  <2>3. TimerTypes'
    BY <1>0, <1>30, <2>1 DEF LoopRequest, StartTimers, TimerTypes
  <2>4. SteamTypes'
    BY <1>0, <1>30, AskElements DEF LoopRequest, SteamTypes
  <2>5. HistoryTypes'
    BY <1>0, <1>30, AskHistory DEF LoopRequest
  <2>6. QED
    BY <1>30, <2>2, <2>3, <2>4, <2>5, UnchangedTypes DEF LoopRequest, TypeOK
<1>4. ASSUME NEW n \in Peers, NEW m \in Peers, JoinRequest(n, m) PROVE TypeOK'
  <2>1. << n, m >> \in Pairs
    BY DEF Pairs
  <2>2. TimerTypes'
    BY <1>0, <1>4, <2>1 DEF JoinRequest, StartTimers, TimerTypes
  <2>3. SteamTypes'
    BY <1>0, <1>4, AskElements DEF JoinRequest, SteamTypes
  <2>4. HistoryTypes'
    BY <1>0, <1>4, AskHistory DEF JoinRequest
  <2>5. QED
    BY <1>4, <2>2, <2>3, <2>4, UnchangedTypes DEF JoinRequest, TypeOK
<1>5. ASSUME NEW n \in Peers, NEW m \in Peers, JoinTimeout(n, m) PROVE TypeOK'
  <2>1. << n, m >> \in Pairs
    BY DEF Pairs
  <2>2. /\ pending' \in [Peers -> SUBSET Peers]
        /\ results' \in [Pairs -> Nat]
        /\ outcome' \in [Pairs -> {"none", "connected", "failed"}]
    BY <1>0, <1>5, ResolveTypes DEF JoinTimeout
  <2>3. TimerTypes'
    BY <1>0, <1>5, <2>1 DEF JoinTimeout, TimerTypes
  <2>4. ClientTypes' /\ ResultTypes'
    BY <1>0, <1>5, <2>2 DEF JoinTimeout, ClientTypes, ResultTypes
  <2>5. QED
    BY <1>5, <2>3, <2>4, UnchangedTypes DEF JoinTimeout, TypeOK
<1>6. ASSUME NEW n \in Peers, NEW m \in Peers, RetryTick(n, m) PROVE TypeOK'
  <2>1. << n, m >> \in Pairs
    BY DEF Pairs
  <2>2. retries[<< n, m >>] - 1 \in Nat /\ sending[<< n, m >>] + 1 \in Nat
    <3>1. retries[<< n, m >>] \in Nat /\ sending[<< n, m >>] \in Nat
      BY <1>0, <2>1 DEF TimerTypes
    <3>2. retries[<< n, m >>] > 0
      BY <1>6 DEF RetryTick
    <3>3. QED
      BY <3>1, <3>2
  <2>3. /\ retries' = [retries EXCEPT ![<< n, m >>] = @ - 1]
        /\ sending' = IF m \in pending[n] THEN [sending EXCEPT ![<< n, m >>] = @ + 1] ELSE sending
        /\ UNCHANGED << call, timeouts, ghosts >>
    BY <1>6 DEF RetryTick
  <2>4. retries' \in [Pairs -> Nat]
    BY <1>0, <2>1, <2>2, <2>3 DEF TimerTypes
  <2>5. sending' \in [Pairs -> Nat]
    <3>1. CASE m \in pending[n]
      BY <1>0, <2>1, <2>2, <2>3, <3>1 DEF TimerTypes
    <3>2. CASE m \notin pending[n]
      BY <1>0, <2>3, <3>2 DEF TimerTypes
    <3>3. QED
      BY <3>1, <3>2
  <2>6. TimerTypes'
    BY <1>0, <2>3, <2>4, <2>5 DEF TimerTypes
  <2>7. QED
    BY <1>6, <2>6, UnchangedTypes DEF RetryTick, TypeOK
<1>7. ASSUME NEW n \in Peers, NEW m \in Peers, RetrySend(n, m) PROVE TypeOK'
  <2>1. << n, m >> \in Pairs
    BY DEF Pairs
  <2>2. TimerTypes'
    BY <1>0, <1>7, <2>1 DEF RetrySend, TimerTypes
  <2>3. SteamTypes'
    BY <1>0, <1>7, AskElements DEF RetrySend, SteamTypes
  <2>4. HistoryTypes'
    BY <1>0, <1>7, AskHistory DEF RetrySend
  <2>5. QED
    BY <1>7, <2>2, <2>3, <2>4, UnchangedTypes DEF RetrySend, TypeOK
<1>25. ASSUME NEW n \in Peers, NEW m \in Peers, GhostAsk(n, m) PROVE TypeOK'
  <2>1. SteamTypes'
    BY <1>0, <1>25, AskElements DEF GhostAsk, SteamTypes
  <2>2. HistoryTypes'
    BY <1>0, <1>25, AskHistory DEF GhostAsk
  <2>3. QED
    BY <1>25, <2>1, <2>2, UnchangedTypes DEF GhostAsk, TypeOK
<1>26. ASSUME NEW n \in Peers, NEW m \in Peers, GhostEnds(n, m) PROVE TypeOK'
  <2>1. TimerTypes'
    BY <1>0, <1>26 DEF GhostEnds, attemptVars, TimerTypes
  <2>2. QED
    BY <1>26, <2>1, UnchangedTypes DEF GhostEnds, TypeOK
<1>8. ASSUME NEW n \in Peers, NEW m \in Peers, OnRequestIP(n, m) PROVE TypeOK'
  <2>1. net[<< m, n >>] # << >>
    BY <1>8 DEF OnRequestIP, CanReceive
  <2>2. /\ AfterAllocate(pool[n], m) \in Pool
        /\ Granted(pool[n], m) \in Address
    BY <1>0, PoolTypes, AddressTypes DEF ClientTypes
  <2>3. \/ TakeAndAnswer(n, m, Msg("nack", NoIP))
        \/ TakeAndAnswer(n, m, Msg("offer", Granted(pool[n], m)))
    BY <1>8 DEF OnRequestIP
  <2>4. net' \in [Pairs -> Seq(Message)]
    BY <1>0, <2>1, <2>2, <2>3, AnswerElements, MessageTypes
  <2>5. SteamTypes'
    BY <1>0, <1>8, <2>4 DEF OnRequestIP, SteamTypes
  <2>6. ClientTypes'
    BY <1>0, <1>8, <2>2 DEF OnRequestIP, ClientTypes
  <2>7. HistoryTypes'
    <3>1. Farewell(n, {m}) \/ (Offered(n, m) /\ UNCHANGED firm)
      BY <1>8 DEF OnRequestIP
    <3>2. spoiled' \in [Peers -> SUBSET Peers] /\ firm' \in [Peers -> Peers \cup {NoPeer}]
      <4>1. CASE Farewell(n, {m})
        BY <1>0, <4>1, FarewellTypes
      <4>2. CASE Offered(n, m) /\ UNCHANGED firm
        BY <1>0, <4>2, OfferedTypes DEF HistoryTypes
      <4>3. QED
        BY <3>1, <4>1, <4>2
    <3>3. QED
      BY <1>0, <1>8, <3>2 DEF OnRequestIP, HistoryTypes
  <2>8. QED
    BY <1>8, <2>5, <2>6, <2>7, UnchangedTypes DEF OnRequestIP, TypeOK
<1>9. ASSUME NEW n \in Peers, NEW m \in Peers, OnOfferIP(n, m) PROVE TypeOK'
  <2> DEFINE ip == Head(net[<< m, n >>]).ip
  <2>1. net[<< m, n >>] # << >> /\ << m, n >> \in Pairs
    BY <1>9 DEF OnOfferIP, CanReceive, Pairs
  <2>2. ip \in Address
    <3>1. Head(net[<< m, n >>]) \in Message
      BY <1>0, <2>1, TailElements DEF SteamTypes
    <3>2. QED
      BY <3>1 DEF Message
  <2>3. PICK outc \in SetIPOutcomes :
       /\ devIP' = [devIP EXCEPT ![n] = DeviceAfter(outc, @, ip)]
       /\ IF outc = "set"
          THEN /\ Take(n, m)
               /\ loop' = [loop EXCEPT ![n] = Verifying(m, ip)]
               /\ UNCHANGED << pending, results, outcome, farewellVars >>
          ELSE /\ TakeAndAnswer(n, m, Msg("nack", NoIP))
               /\ GiveUpOn(n, {m})
               /\ Resolve(n, m, FALSE)
               /\ UNCHANGED loop
    BY <1>9 DEF OnOfferIP
  <2> HIDE DEF ip
  <2>4. devIP' \in [Peers -> Address]
    <3>1. DeviceAfter(outc, devIP[n], ip) \in Address
      BY <1>0, <2>2, AddressTypes, DeviceTypes DEF ClientTypes
    <3>2. QED
      BY <1>0, <2>3, <3>1 DEF ClientTypes
  <2>5. net' \in [Pairs -> Seq(Message)]
    BY <1>0, <2>1, <2>3, TakeElements, AnswerElements, MessageTypes
  <2>6. /\ pending' \in [Peers -> SUBSET Peers]
        /\ results' \in [Pairs -> Nat]
        /\ outcome' \in [Pairs -> {"none", "connected", "failed"}]
    <3>1. CASE UNCHANGED << pending, results, outcome >>
      BY <1>0, <3>1 DEF ClientTypes, ResultTypes
    <3>2. CASE Resolve(n, m, FALSE)
      BY <1>0, <3>2, ResolveTypes
    <3>3. QED
      BY <2>3, <3>1, <3>2
  <2>7. loop' \in [Peers -> LoopStates]
    <3>1. Verifying(m, ip) \in LoopStates
      BY <2>2, LoopTypes
    <3>2. QED
      BY <1>0, <2>3, <3>1 DEF ClientTypes
  <2>8. /\ gaveUp' \in [Peers -> SUBSET Peers]
        /\ spoiled' \in [Peers -> SUBSET Peers]
        /\ firm' \in [Peers -> Peers \cup {NoPeer}]
    <3>1. CASE UNCHANGED farewellVars
      BY <1>0, <3>1 DEF farewellVars, HistoryTypes
    <3>2. CASE GiveUpOn(n, {m})
      BY <1>0, <3>2, GiveUpTypes
    <3>3. QED
      BY <2>3, <3>1, <3>2
  <2>9. ClientTypes'
    BY <1>0, <1>9, <2>4, <2>6, <2>7 DEF OnOfferIP, ClientTypes
  <2>10. SteamTypes' /\ ResultTypes' /\ HistoryTypes'
    BY <1>0, <1>9, <2>5, <2>6, <2>8
    DEF OnOfferIP, SteamTypes, ResultTypes, HistoryTypes
  <2>11. QED
    BY <1>9, <2>9, <2>10, UnchangedTypes DEF OnOfferIP, TypeOK
<1>10. ASSUME NEW n \in Peers, VerifyFinds(n) PROVE TypeOK'
  <2>1. Confirming(loop[n].from, loop[n].ip) \in LoopStates
    BY <1>0, <1>10, VerifyingTypes, LoopTypes DEF VerifyFinds
  <2>2. ClientTypes'
    BY <1>0, <1>10, <2>1 DEF VerifyFinds, ClientTypes
  <2>3. QED
    BY <1>10, <2>2, UnchangedTypes DEF VerifyFinds, TypeOK
<1>31. ASSUME NEW n \in Peers, Confirm(n) PROVE TypeOK'
  <2>1. /\ loop[n].from \in Peers /\ loop[n].ip \in Address
    BY <1>0, <1>31, VerifyingTypes DEF Confirm
  <2>2. /\ Send(n, loop[n].from, Msg("ack", loop[n].ip))
        /\ Resolve(n, loop[n].from, TRUE)
        /\ Adopt(n, loop[n].from, loop[n].ip)
    BY <1>31 DEF Confirm
  <2>3. SteamTypes'
    BY <1>0, <1>31, <2>1, <2>2, SendElements, MessageTypes DEF Confirm, SteamTypes
  <2>4. /\ pending' \in [Peers -> SUBSET Peers]
        /\ results' \in [Pairs -> Nat]
        /\ outcome' \in [Pairs -> {"none", "connected", "failed"}]
    BY <1>0, <2>1, <2>2, ResolveTypes
  <2>5. /\ localIP' \in [Peers -> Address]
        /\ source' \in [Peers -> Peers \cup {NoPeer}]
        /\ firm' \in [Peers -> Peers \cup {NoPeer}]
    BY <1>0, <2>1, <2>2, AdoptTypes
  <2>6. ClientTypes'
    BY <1>0, <1>31, <2>4, <2>5, LoopTypes DEF Confirm, ClientTypes
  <2>7. ResultTypes' /\ HistoryTypes'
    BY <1>0, <1>31, <2>4, <2>5 DEF Confirm, ResultTypes, HistoryTypes
  <2>8. QED
    BY <1>31, <2>3, <2>6, <2>7, UnchangedTypes DEF Confirm, TypeOK
<1>11. ASSUME NEW n \in Peers, VerifyMisses(n) PROVE TypeOK'
  <2>1. /\ loop[n].from \in Peers /\ loop[n].ip \in Address
    BY <1>0, <1>11, VerifyingTypes DEF VerifyMisses
  <2>2. /\ Send(n, loop[n].from, Msg("nack", loop[n].ip))
        /\ Resolve(n, loop[n].from, FALSE)
    BY <1>11 DEF VerifyMisses
  <2>3. SteamTypes'
    BY <1>0, <1>11, <2>1, <2>2, SendElements, MessageTypes DEF VerifyMisses, SteamTypes
  <2>4. /\ pending' \in [Peers -> SUBSET Peers]
        /\ results' \in [Pairs -> Nat]
        /\ outcome' \in [Pairs -> {"none", "connected", "failed"}]
    BY <1>0, <2>1, <2>2, ResolveTypes
  <2>5. ClientTypes'
    BY <1>0, <1>11, <2>4, LoopTypes DEF VerifyMisses, ClientTypes
  <2>6. /\ gaveUp' \in [Peers -> SUBSET Peers]
        /\ spoiled' \in [Peers -> SUBSET Peers]
        /\ firm' \in [Peers -> Peers \cup {NoPeer}]
    BY <1>0, <1>11, <2>1, GiveUpTypes DEF VerifyMisses
  <2>7. ResultTypes' /\ HistoryTypes'
    BY <1>0, <1>11, <2>4, <2>6 DEF VerifyMisses, ResultTypes, HistoryTypes
  <2>8. QED
    BY <1>11, <2>3, <2>5, <2>7, UnchangedTypes DEF VerifyMisses, TypeOK
<1>12. ASSUME NEW n \in Peers, NEW m \in Peers, OnAckIP(n, m) PROVE TypeOK'
  <2>1. SteamTypes'
    BY <1>0, <1>12, TakeElements DEF OnAckIP, CanReceive, SteamTypes
  <2>2. QED
    BY <1>12, <2>1, UnchangedTypes DEF OnAckIP, TypeOK
<1>13. ASSUME NEW n \in Peers, NEW m \in Peers, OnNackIP(n, m) PROVE TypeOK'
  <2>1. SteamTypes'
    BY <1>0, <1>13, TakeElements DEF OnNackIP, CanReceive, SteamTypes
  <2>2. /\ pending' \in [Peers -> SUBSET Peers]
        /\ results' \in [Pairs -> Nat]
        /\ outcome' \in [Pairs -> {"none", "connected", "failed"}]
    BY <1>0, <1>13, ResolveTypes DEF OnNackIP
  <2>3. AfterRelease(pool[n], m) \in Pool
    BY <1>0, PoolTypes DEF ClientTypes
  <2>4. ClientTypes' /\ ResultTypes'
    BY <1>0, <1>13, <2>2, <2>3 DEF OnNackIP, ClientTypes, ResultTypes
  <2>5. QED
    BY <1>13, <2>1, <2>4, UnchangedTypes DEF OnNackIP, TypeOK
<1>14. ASSUME NEW n \in Peers, NEW m \in Peers, OnDisconnect(n, m) PROVE TypeOK'
  <2>1. SteamTypes'
    BY <1>0, <1>14, TakeElements DEF OnDisconnect, CanReceive, SteamTypes
  <2>2. /\ pending' \in [Peers -> SUBSET Peers]
        /\ results' \in [Pairs -> Nat]
        /\ outcome' \in [Pairs -> {"none", "connected", "failed"}]
    BY <1>0, <1>14, ResolveTypes DEF OnDisconnect
  <2>3. AfterRelease(pool[n], m) \in Pool
    BY <1>0, PoolTypes DEF ClientTypes
  <2>4. ClientTypes' /\ ResultTypes'
    BY <1>0, <1>14, <2>2, <2>3 DEF OnDisconnect, ClientTypes, ResultTypes
  <2>5. QED
    BY <1>14, <2>1, <2>4, UnchangedTypes DEF OnDisconnect, TypeOK
<1>15. ASSUME NEW n \in Peers, NEW m \in Peers, Ask(n, m) PROVE TypeOK'
  <2>1. SteamTypes'
    BY <1>0, <1>15 DEF Ask, SteamTypes
  <2>2. QED
    BY <1>15, <2>1, UnchangedTypes DEF Ask, TypeOK
<1>16. ASSUME NEW n \in Peers, NEW m \in Peers, Accept(n, m) PROVE TypeOK'
  <2>1. SteamTypes'
    BY <1>0, <1>16 DEF Accept, SteamTypes
  <2>2. ClientTypes'
    BY <1>0, <1>16 DEF Accept, ClientTypes
  <2>3. QED
    BY <1>16, <2>1, <2>2, UnchangedTypes DEF Accept, TypeOK
<1>17. ASSUME NEW n \in Peers, NEW m \in Peers, Deny(n, m) PROVE TypeOK'
  <2>1. << >> \in Seq(Message)
    OBVIOUS
  <2>2. SteamTypes'
    BY <1>0, <1>17, <2>1 DEF Deny, SteamTypes
  <2>3. QED
    BY <1>17, <2>2, UnchangedTypes DEF Deny, TypeOK
<1>18. ASSUME NEW n \in Peers, NEW m \in Peers, Drop(n, m) PROVE TypeOK'
  <2>1. SteamTypes'
    BY <1>0, <1>18, TakeElements DEF Drop, SteamTypes
  <2>2. QED
    BY <1>18, <2>1, UnchangedTypes DEF Drop, TypeOK
<1>19. ASSUME NEW n \in Peers, Leave(n) PROVE TypeOK'
  <2>1. net' \in [Pairs -> Seq(Message)]
    BY <1>0, <1>19, LeaveElements
  <2>2. SteamTypes'
    BY <1>0, <1>19, <2>1 DEF Leave, SteamTypes, ClientTypes
  <2>3. HistoryTypes'
    <3>1. peers[n] \in SUBSET Peers
      BY <1>0 DEF ClientTypes
    <3>2. /\ gaveUp' \in [Peers -> SUBSET Peers]
          /\ spoiled' \in [Peers -> SUBSET Peers]
          /\ firm' \in [Peers -> Peers \cup {NoPeer}]
      BY <1>0, <1>19, <3>1, GiveUpTypes DEF Leave
    <3>3. QED
      BY <1>0, <1>19, <3>1, <3>2 DEF Leave, HistoryTypes
  <2>4. life' \in [Peers -> Lives]
    BY <1>19, <1>00 DEF Leave
  <2>5. QED
    BY <1>19, <2>2, <2>3, <2>4, UnchangedTypes DEF Leave, TypeOK
<1>20. ASSUME NEW n \in Peers, Close(n) PROVE TypeOK'
  <2>1. SteamTypes'
    BY <1>0, <1>20 DEF Close, SteamTypes
  <2>2. life' \in [Peers -> Lives]
    BY <1>20, <1>00 DEF Close
  <2>3. QED
    BY <1>20, <2>1, <2>2, UnchangedTypes DEF Close, TypeOK
<1>21. ASSUME NEW n \in Peers, Reopen(n) \/ Crash(n) PROVE TypeOK'
  <2>1. Forget(n) /\ NewPool \in Pool
    BY <1>21, NewPoolSound DEF Reopen, Crash, PoolSound
  <2>2. ClientTypes'
    BY <1>0, <2>1, AddressTypes, LoopTypes DEF Forget, ClientTypes
  <2>3. ghosts' \in [Peers -> SUBSET Peers]
    <3>1. Unanswered(n) \subseteq Peers
      BY DEF Unanswered
    <3>2. QED
      BY <1>0, <1>21, <3>1 DEF Reopen, Crash, TimerTypes
  <2>4. call' \in [Pairs -> {"none", "checked", "request"}]
    <3>1. CASE Reopen(n)
      BY <1>0, <3>1 DEF Reopen, TimerTypes
    <3>2. CASE Crash(n)
      BY <1>0, <3>2 DEF Crash, Reset, TimerTypes
    <3>3. QED
      BY <1>21, <3>1, <3>2
  <2>11. TimerTypes'
    BY <1>0, <2>1, <2>3, <2>4 DEF Forget, Reset, TimerTypes
  <2>5. SteamTypes'
    BY <1>0, <2>1 DEF Forget, SteamTypes
  <2>6. ResultTypes'
    BY <1>0, <2>1 DEF Forget, Reset, ResultTypes
  <2>8. HistoryTypes'
    BY <1>0, <2>1 DEF Forget, HistoryTypes
  <2>9. life' \in [Peers -> Lives]
    BY <2>1, <1>00 DEF Forget
  <2>10. QED
    BY <2>2, <2>5, <2>6, <2>8, <2>9, <2>11 DEF TypeOK
<1>22. CASE UNCHANGED vars
  BY <1>22, UnchangedTypes DEF TypeOK, vars
<1>27. QED
  BY <1>1, <1>2, <1>3, <1>4, <1>5, <1>6, <1>7, <1>8, <1>9, <1>10, <1>11, <1>12,
     <1>13, <1>14, <1>15, <1>16, <1>17, <1>18, <1>19, <1>20, <1>21, <1>22, <1>23,
     <1>24, <1>25, <1>26, <1>28, <1>29, <1>30, <1>31
  DEF Next, StartStep, ReadLoopStep, TimerStep, GateStep

\* The initial state has the types.
LEMMA TypeInit == Init => TypeOK
<1> SUFFICES ASSUME Init PROVE TypeOK
  OBVIOUS
<1>1. NewPool \in Pool /\ << >> \in Seq(Message)
  BY NewPoolSound DEF PoolSound
<1>2. ClientTypes
  BY <1>1, AddressTypes, LoopTypes DEF Init, ClientTypes
<1>3. TimerTypes /\ ResultTypes
  BY DEF Init, TimerTypes, ResultTypes
<1>4. SteamTypes
  BY <1>1 DEF Init, SteamTypes
<1>5. HistoryTypes
  BY DEF Init, HistoryTypes
<1>6. QED
  BY <1>2, <1>3, <1>4, <1>5 DEF Init, TypeOK, Lives

\* The state of every node keeps its types, whatever the nodes, the network
\* and the users do (client.go, pool.go).
THEOREM HandshakeTypes == Spec => []TypeOK
  BY TypeInit, TypeStep, PTL DEF Spec

-----------------------------------------------------------------------------
(***************************************************************************)
(* The pools.                                                              *)
(***************************************************************************)

\* Every node's pool is sound (pool.go).
PoolsSound == \A n \in Peers : PoolSound(pool[n])

\* Only a request, a refusal, a departure and the end of a life touch a pool.
LEMMA PoolSteps ==
  ASSUME TypeOK, [Next]_vars
  PROVE  \/ UNCHANGED pool
         \/ \E n, m \in Peers : OnRequestIP(n, m) \/ OnNackIP(n, m) \/ OnDisconnect(n, m)
         \/ \E n \in Peers : Forget(n)
<1>1. ASSUME NEW n \in Peers,
             \/ StartStep(n) \/ Leave(n) \/ Close(n)
             \/ VerifyFinds(n) \/ VerifyMisses(n) \/ Confirm(n)
      PROVE  UNCHANGED pool
  BY <1>1
  DEF StartStep, Start, RequestBootstrap, AssignHostIP, RecordHostIP, Leave, Close,
      VerifyFinds, VerifyMisses, Confirm, clientVars
<1>2. ASSUME NEW n \in Peers, NEW m \in Peers,
             \/ CheckJoin(n, m) \/ Join(n, m) \/ JoinRequest(n, m)
             \/ LoopJoin(n, m) \/ LoopRequest(n, m) \/ TimerStep(n, m) \/ GateStep(n, m)
             \/ OnOfferIP(n, m) \/ OnAckIP(n, m)
      PROVE  UNCHANGED pool
  BY <1>2
  DEF CheckJoin, Join, JoinRequest, LoopJoin, LoopRequest, TimerStep, JoinTimeout, RetryTick,
      RetrySend, GhostAsk, GhostEnds, GateStep, Ask, Accept, Deny, Drop, OnOfferIP, OnAckIP,
      clientVars
<1>3. CASE UNCHANGED vars
  BY <1>3 DEF vars, clientVars
<1>4. QED
  BY <1>1, <1>2, <1>3 DEF Next, ReadLoopStep, Reopen, Crash

\* Every step keeps every pool sound.
LEMMA PoolsStep ==
  ASSUME TypeOK, PoolsSound, [Next]_vars
  PROVE  PoolsSound'
<1>1. pool \in [Peers -> Pool]
  BY DEF TypeOK, ClientTypes
<1>2. ASSUME NEW n \in Peers, NEW p, PoolSound(p), pool' = [pool EXCEPT ![n] = p]
      PROVE  PoolsSound'
  BY <1>1, <1>2 DEF PoolsSound
<1>3. ASSUME NEW n \in Peers, Forget(n)
      PROVE  PoolsSound'
  BY <1>2, <1>3, NewPoolSound DEF Forget
<1>4. ASSUME NEW n \in Peers, NEW m \in Peers,
             OnRequestIP(n, m) \/ OnNackIP(n, m) \/ OnDisconnect(n, m)
      PROVE  PoolsSound'
  <2>1. PoolSound(pool[n])
    BY DEF PoolsSound
  <2>2. PoolSound(AfterAllocate(pool[n], m)) /\ PoolSound(AfterRelease(pool[n], m))
    BY <2>1, AllocateSound, ReleaseSound
  <2>3. QED
    BY <1>2, <1>4, <2>2 DEF OnRequestIP, OnNackIP, OnDisconnect
<1>5. CASE UNCHANGED pool
  BY <1>5 DEF PoolsSound
<1>6. QED
  BY <1>3, <1>4, <1>5, PoolSteps

\* Every pool stays sound whatever the handshakes, the network and the crashes
\* do to it (client.go l.305-313, 358-382).
THEOREM PoolsStaySound == Spec => []PoolsSound
<1>1. Init => PoolsSound
  BY NewPoolSound DEF Init, PoolsSound
<1>2. QED
  BY <1>1, PoolsStep, HandshakeTypes, PTL DEF Spec

-----------------------------------------------------------------------------
(***************************************************************************)
(* Pending joins, their timers and their answers.                          *)
(***************************************************************************)

\* What a step may do to the pending joins and their timers.
LEMMA AnswerSteps ==
  ASSUME TypeOK, [Next]_vars
  PROVE  \/ UNCHANGED << pending, attemptVars, joins, results >>
         \/ \E n, h \in Peers : /\ Resolve(n, h, TRUE) \/ Resolve(n, h, FALSE)
                                /\ UNCHANGED << attemptVars, joins >>
         \/ \E n, h \in Peers : \/ CheckJoin(n, h) \/ Join(n, h) \/ JoinRequest(n, h)
                                \/ LoopJoin(n, h) \/ LoopRequest(n, h) \/ JoinTimeout(n, h)
                                \/ RetryTick(n, h) \/ RetrySend(n, h)
         \/ \E n \in Peers : Reopen(n) \/ Crash(n)
<1>0. ClientTypes
  BY DEF TypeOK
<1>1. ASSUME NEW n \in Peers,
             StartStep(n) \/ Leave(n) \/ Close(n) \/ VerifyFinds(n)
      PROVE  UNCHANGED << pending, attemptVars, joins, results >>
  BY <1>1 
  DEF StartStep, Start, RequestBootstrap, AssignHostIP, RecordHostIP, Leave, Close,
      VerifyFinds, clientVars, timerVars, resultVars
<1>2. ASSUME NEW n \in Peers, NEW m \in Peers,
             \/ OnRequestIP(n, m) \/ OnAckIP(n, m) \/ GateStep(n, m)
             \/ GhostAsk(n, m) \/ GhostEnds(n, m)
      PROVE  UNCHANGED << pending, attemptVars, joins, results >>
  BY <1>2 
  DEF OnRequestIP, OnAckIP, GateStep, Ask, Accept, Deny, Drop, GhostAsk, GhostEnds,
      clientVars, timerVars, resultVars
<1>3. ASSUME NEW n \in Peers, NEW m \in Peers, OnNackIP(n, m) \/ OnDisconnect(n, m)
      PROVE  Resolve(n, m, FALSE) /\ UNCHANGED << attemptVars, joins >>
  BY <1>3 DEF OnNackIP, OnDisconnect, timerVars
<1>4. ASSUME NEW n \in Peers, NEW m \in Peers, OnOfferIP(n, m)
      PROVE  /\ Resolve(n, m, FALSE) \/ UNCHANGED << pending, results >>
             /\ UNCHANGED << attemptVars, joins >>
  BY <1>4 DEF OnOfferIP, timerVars
<1>5. ASSUME NEW n \in Peers, Confirm(n) \/ VerifyMisses(n)
      PROVE  /\ loop[n].from \in Peers
             /\ Resolve(n, loop[n].from, TRUE) \/ Resolve(n, loop[n].from, FALSE)
             /\ UNCHANGED << attemptVars, joins >>
  <2>1. loop[n].at = "verify" \/ loop[n].at = "found"
    BY <1>5 DEF Confirm, VerifyMisses
  <2>2. QED
    BY <1>0, <1>5, <2>1, VerifyingTypes DEF Confirm, VerifyMisses, timerVars
<1>6. CASE UNCHANGED vars
  BY <1>6 DEF vars, clientVars, timerVars, resultVars
<1>7. QED
  BY <1>1, <1>2, <1>3, <1>4, <1>5, <1>6 DEF Next, ReadLoopStep, TimerStep

\* A ReadLoop that joins a host goes on to ask it, unless its node ends.
LEMMA JoiningSteps ==
  ASSUME TypeOK, [Next]_vars
  PROVE  \/ \A k, g \in Peers : loop[k] = Joining(g) => loop'[k] = Joining(g)
         \/ \E n, h \in Peers : LoopRequest(n, h)
         \/ \E n \in Peers : Reopen(n) \/ Crash(n)
<1>0. loop \in [Peers -> LoopStates]
  BY DEF TypeOK, ClientTypes
<1>1. \A g \in Peers : Joining(g) # Idle /\ Joining(g).at = "joining"
  <2>1. \A g \in Peers : Joining(g).at = "joining"
    BY DEF Joining
  <2>2. Idle.at = "idle"
    BY DEF Idle
  <2>3. QED
    BY <2>1, <2>2
<1>2. ASSUME NEW n \in Peers, NEW l, loop' = [loop EXCEPT ![n] = l],
             loop[n] = Idle \/ loop[n].at = "verify" \/ loop[n].at = "found"
      PROVE  \A k, g \in Peers : loop[k] = Joining(g) => loop'[k] = Joining(g)
  BY <1>0, <1>1, <1>2
<1>3. ASSUME NEW n \in Peers,
             StartStep(n) \/ Leave(n) \/ Close(n)
      PROVE  UNCHANGED loop
  BY <1>3
  DEF StartStep, Start, RequestBootstrap, AssignHostIP, RecordHostIP, Leave, Close, clientVars
<1>4. ASSUME NEW n \in Peers, NEW m \in Peers,
             \/ CheckJoin(n, m) \/ Join(n, m) \/ JoinRequest(n, m) \/ TimerStep(n, m)
             \/ GateStep(n, m) \/ OnRequestIP(n, m) \/ OnAckIP(n, m) \/ OnNackIP(n, m)
             \/ OnDisconnect(n, m)
      PROVE  UNCHANGED loop
  BY <1>4
  DEF CheckJoin, Join, JoinRequest, TimerStep, JoinTimeout, RetryTick, RetrySend, GhostAsk,
      GhostEnds, GateStep, Ask, Accept, Deny, Drop, OnRequestIP, OnAckIP, OnNackIP,
      OnDisconnect, clientVars
<1>5. ASSUME NEW n \in Peers, NEW m \in Peers, LoopJoin(n, m)
      PROVE  \A k, g \in Peers : loop[k] = Joining(g) => loop'[k] = Joining(g)
  BY <1>2, <1>5 DEF LoopJoin
<1>6. ASSUME NEW n \in Peers, NEW m \in Peers, OnOfferIP(n, m)
      PROVE  \A k, g \in Peers : loop[k] = Joining(g) => loop'[k] = Joining(g)
  <2>1. loop[n] = Idle
    BY <1>6 DEF OnOfferIP, CanReceive
  <2>2. \/ UNCHANGED loop
        \/ loop' = [loop EXCEPT ![n] = Verifying(m, Head(net[<< m, n >>]).ip)]
    BY <1>6 DEF OnOfferIP
  <2>3. QED
    BY <1>2, <2>1, <2>2
<1>7. ASSUME NEW n \in Peers, VerifyFinds(n) \/ VerifyMisses(n) \/ Confirm(n)
      PROVE  \A k, g \in Peers : loop[k] = Joining(g) => loop'[k] = Joining(g)
  BY <1>2, <1>7 DEF VerifyFinds, VerifyMisses, Confirm
<1>8. CASE UNCHANGED vars
  BY <1>8 DEF vars, clientVars
<1>9. QED
  BY <1>3, <1>4, <1>5, <1>6, <1>7, <1>8 DEF Next, ReadLoopStep

\* Resolving a join ends it, and answers it if it was pending.
LEMMA ResolveEffect ==
  ASSUME ClientTypes, ResultTypes, NEW n \in Peers, NEW h \in Peers,
         Resolve(n, h, TRUE) \/ Resolve(n, h, FALSE)
  PROVE  /\ \A k \in Peers : pending'[k] = IF k = n THEN pending[n] \ {h} ELSE pending[k]
         /\ \A k, g \in Peers : results'[<< k, g >>] =
              IF k = n /\ g = h /\ h \in pending[n] THEN results[<< n, h >>] + 1
                                                    ELSE results[<< k, g >>]
<1>1. /\ pending \in [Peers -> SUBSET Peers]
      /\ results \in [Pairs -> Nat]
      /\ \A k, g \in Peers : << k, g >> \in Pairs
  BY DEF ClientTypes, ResultTypes, Pairs
<1>2. CASE h \in pending[n]
  <2>1. /\ pending' = [pending EXCEPT ![n] = @ \ {h}]
        /\ results' = [results EXCEPT ![<< n, h >>] = @ + 1]
    BY <1>2 DEF Resolve
  <2>2. QED
    BY <1>1, <1>2, <2>1
<1>3. CASE h \notin pending[n]
  <2>1. UNCHANGED << pending, results >>
    BY <1>3 DEF Resolve
  <2>2. pending[n] \ {h} = pending[n]
    BY <1>3
  <2>3. QED
    BY <1>1, <1>3, <2>1, <2>2
<1>4. QED
  BY <1>2, <1>3

\* Every step leaves each pending join its timers.
LEMMA TimedStep ==
  ASSUME TypeOK, PendingIsTimed, [Next]_vars
  PROVE  PendingIsTimed'
<1> DEFINE Timed(n, h) == \/ call[<< n, h >>] = "request" \/ loop[n] = Joining(h)
                          \/ timeouts[<< n, h >>] > 0 /\ retries[<< n, h >>] + sending[<< n, h >>] > 0
<1>0. /\ ClientTypes /\ ResultTypes
      /\ pending \in [Peers -> SUBSET Peers]
      /\ call \in [Pairs -> {"none", "checked", "request"}]
      /\ loop \in [Peers -> LoopStates]
      /\ timeouts \in [Pairs -> Nat]
      /\ retries \in [Pairs -> Nat]
      /\ sending \in [Pairs -> Nat]
      /\ \A k, g \in Peers : << k, g >> \in Pairs
      /\ \A k, g \in Peers : g \in pending[k] => Timed(k, g)
  BY DEF TypeOK, ClientTypes, TimerTypes, Pairs, PendingIsTimed
<1>1. SUFFICES ASSUME NEW k \in Peers, NEW g \in Peers, g \in pending'[k]
               PROVE  Timed(k, g)'
  BY DEF PendingIsTimed
<1> DEFINE Stays == loop[k] = Joining(g) => loop'[k] = Joining(g)
<1>2. ASSUME Stays, UNCHANGED << pending, attemptVars >> PROVE Timed(k, g)'
  BY <1>0, <1>1, <1>2 DEF attemptVars
<1>3. ASSUME Stays, NEW n \in Peers, NEW h \in Peers,
             Resolve(n, h, TRUE) \/ Resolve(n, h, FALSE), UNCHANGED attemptVars
      PROVE  Timed(k, g)'
  <2>1. g \in pending[k]
    BY <1>0, <1>1, <1>3, ResolveEffect
  <2>2. QED
    BY <1>0, <1>3, <2>1 DEF attemptVars
<1>11. ASSUME NEW n \in Peers, NEW h \in Peers, CheckJoin(n, h) PROVE Timed(k, g)'
  <2>1. g \in pending[k] /\ UNCHANGED << loop, timeouts, retries, sending >>
    BY <1>1, <1>11 DEF CheckJoin, clientVars
  <2>2. call[<< k, g >>] = "request" => call'[<< k, g >>] = "request"
    BY <1>0, <1>11 DEF CheckJoin
  <2>3. QED
    BY <1>0, <2>1, <2>2
<1>4. ASSUME NEW n \in Peers, NEW h \in Peers, Join(n, h) PROVE Timed(k, g)'
  <2>1. CASE k = n /\ g = h
    BY <1>0, <1>4, <2>1 DEF Join
  <2>2. CASE ~(k = n /\ g = h)
    <3>1. g \in pending[k]
      BY <1>0, <1>1, <1>4, <2>2 DEF Join, Register
    <3>2. QED
      BY <1>0, <1>4, <2>2, <3>1 DEF Join
  <2>3. QED
    BY <2>1, <2>2
<1>12. ASSUME Stays, NEW n \in Peers, NEW h \in Peers, LoopJoin(n, h) PROVE Timed(k, g)'
  <2>1. CASE k = n /\ g = h
    BY <1>0, <1>12, <2>1 DEF LoopJoin
  <2>2. CASE ~(k = n /\ g = h)
    <3>1. g \in pending[k]
      BY <1>0, <1>1, <1>12, <2>2 DEF LoopJoin, Register
    <3>2. QED
      BY <1>0, <1>12, <3>1 DEF LoopJoin, timerVars, attemptVars
  <2>3. QED
    BY <2>1, <2>2
<1>13. ASSUME NEW n \in Peers, NEW h \in Peers, StartTimers(n, h), k = n, g = h
       PROVE  /\ timeouts'[<< k, g >>] = timeouts[<< k, g >>] + 1
              /\ retries'[<< k, g >>] = retries[<< k, g >>] + 1
  BY <1>0, <1>13 DEF StartTimers
<1>14. ASSUME NEW n \in Peers, NEW h \in Peers, StartTimers(n, h), ~(k = n /\ g = h)
       PROVE  /\ timeouts'[<< k, g >>] = timeouts[<< k, g >>]
              /\ retries'[<< k, g >>] = retries[<< k, g >>]
  BY <1>0, <1>14 DEF StartTimers
<1>5. ASSUME NEW n \in Peers, NEW h \in Peers, JoinRequest(n, h) PROVE Timed(k, g)'
  <2>1. g \in pending[k] /\ UNCHANGED << loop, sending >> /\ StartTimers(n, h)
    BY <1>1, <1>5 DEF JoinRequest, clientVars
  <2>2. CASE k = n /\ g = h
    BY <1>0, <1>13, <2>1, <2>2
  <2>3. CASE ~(k = n /\ g = h)
    <3>1. call'[<< k, g >>] = call[<< k, g >>]
      BY <1>0, <1>5, <2>3 DEF JoinRequest
    <3>2. QED
      BY <1>0, <1>14, <2>1, <2>3, <3>1
  <2>4. QED
    BY <2>2, <2>3
<1>15. ASSUME NEW n \in Peers, NEW h \in Peers, LoopRequest(n, h) PROVE Timed(k, g)'
  <2>1. g \in pending[k] /\ UNCHANGED << call, sending >> /\ StartTimers(n, h)
    BY <1>1, <1>15 DEF LoopRequest
  <2>2. CASE k = n /\ g = h
    BY <1>0, <1>13, <2>1, <2>2
  <2>3. CASE ~(k = n /\ g = h)
    <3>1. loop[k] = Joining(g) => loop'[k] = Joining(g)
      <4>1. loop[n] = Joining(h) /\ loop' = [loop EXCEPT ![n] = Idle]
        BY <1>15 DEF LoopRequest
      <4>2. Joining(g) = Joining(h) => g = h
        BY DEF Joining
      <4>3. QED
        BY <1>0, <2>3, <4>1, <4>2
    <3>2. QED
      BY <1>0, <1>14, <2>1, <2>3, <3>1
  <2>4. QED
    BY <2>2, <2>3
<1>6. ASSUME Stays, NEW n \in Peers, NEW h \in Peers, JoinTimeout(n, h) PROVE Timed(k, g)'
  <2>1. /\ Resolve(n, h, FALSE)
        /\ timeouts' = [timeouts EXCEPT ![<< n, h >>] = @ - 1]
        /\ UNCHANGED << call, retries, sending >>
    BY <1>6 DEF JoinTimeout
  <2>2. pending'[k] = IF k = n THEN pending[n] \ {h} ELSE pending[k]
    BY <1>0, <2>1, ResolveEffect
  <2>3. ~(k = n /\ g = h)
    BY <1>1, <2>2
  <2>4. g \in pending[k]
    BY <1>1, <2>2
  <2>5. timeouts'[<< k, g >>] = timeouts[<< k, g >>]
    BY <1>0, <2>1, <2>3
  <2>6. Timed(k, g)
    BY <1>0, <2>4
  <2>7. QED
    BY <1>6, <2>1, <2>5, <2>6
<1>7. ASSUME NEW n \in Peers, NEW h \in Peers, RetryTick(n, h) PROVE Timed(k, g)'
  <2>1. g \in pending[k] /\ UNCHANGED loop
    BY <1>1, <1>7 DEF RetryTick, clientVars
  <2>2. CASE k = n /\ g = h
    <3>1. /\ retries'[<< n, h >>] = retries[<< n, h >>] - 1
          /\ sending'[<< n, h >>] = sending[<< n, h >>] + 1
      BY <1>0, <1>7, <2>1, <2>2 DEF RetryTick
    <3>2. UNCHANGED << call, timeouts >>
      BY <1>7 DEF RetryTick
    <3>3. QED
      BY <1>0, <2>1, <2>2, <3>1, <3>2
  <2>3. CASE ~(k = n /\ g = h)
    <3>1. /\ retries'[<< k, g >>] = retries[<< k, g >>]
          /\ sending'[<< k, g >>] = sending[<< k, g >>]
      BY <1>0, <1>7, <2>3 DEF RetryTick
    <3>2. QED
      BY <1>0, <1>7, <2>1, <3>1 DEF RetryTick
  <2>4. QED
    BY <2>2, <2>3
<1>8. ASSUME NEW n \in Peers, NEW h \in Peers, RetrySend(n, h) PROVE Timed(k, g)'
  <2>1. g \in pending[k] /\ UNCHANGED loop
    BY <1>1, <1>8 DEF RetrySend, clientVars
  <2>2. retries'[<< k, g >>] + sending'[<< k, g >>] = retries[<< k, g >>] + sending[<< k, g >>]
    BY <1>0, <1>8 DEF RetrySend
  <2>3. QED
    BY <1>0, <1>8, <2>1, <2>2 DEF RetrySend
<1>9. ASSUME NEW n \in Peers, Reopen(n) \/ Crash(n) PROVE Timed(k, g)'
  <2>1. Forget(n)
    BY <1>9 DEF Reopen, Crash
  <2>2. k # n /\ g \in pending[k]
    BY <1>0, <1>1, <2>1 DEF Forget
  <2>3. loop'[k] = loop[k]
    BY <1>0, <2>1, <2>2 DEF Forget
  <2>4. call'[<< k, g >>] = call[<< k, g >>]
    BY <1>0, <1>9, <2>2 DEF Reopen, Crash, Reset
  <2>5. /\ timeouts'[<< k, g >>] = timeouts[<< k, g >>]
        /\ retries'[<< k, g >>] = retries[<< k, g >>]
        /\ sending'[<< k, g >>] = sending[<< k, g >>]
    BY <1>0, <2>1, <2>2 DEF Forget, Reset
  <2>6. QED
    BY <1>0, <2>2, <2>3, <2>4, <2>5
<1>16. CASE Stays
  BY <1>2, <1>3, <1>11, <1>4, <1>12, <1>5, <1>15, <1>6, <1>7, <1>8, <1>9, <1>16, AnswerSteps
<1>10. QED
  BY <1>9, <1>15, <1>16, JoiningSteps

\* Every step answers at most the join it ends.
LEMMA SecondResultStep ==
  ASSUME TypeOK, NoSecondResult, [Next]_vars
  PROVE  NoSecondResult'
<1>0. /\ ClientTypes /\ ResultTypes
      /\ pending \in [Peers -> SUBSET Peers]
      /\ joins \in [Pairs -> Nat]
      /\ results \in [Pairs -> Nat]
      /\ \A k, g \in Peers : << k, g >> \in Pairs
  BY DEF TypeOK, ClientTypes, ResultTypes, Pairs
<1>1. SUFFICES ASSUME NEW k \in Peers, NEW g \in Peers
               PROVE  results'[<< k, g >>] + (IF g \in pending'[k] THEN 1 ELSE 0)
                        <= joins'[<< k, g >>]
  BY DEF NoSecondResult
<1>2. /\ results[<< k, g >>] \in Nat /\ joins[<< k, g >>] \in Nat
      /\ results[<< k, g >>] + (IF g \in pending[k] THEN 1 ELSE 0) <= joins[<< k, g >>]
  BY <1>0 DEF NoSecondResult
<1>3. CASE UNCHANGED << pending, joins, results >>
  BY <1>2, <1>3
<1>4. ASSUME NEW n \in Peers, NEW h \in Peers,
             Resolve(n, h, TRUE) \/ Resolve(n, h, FALSE), UNCHANGED joins
      PROVE  results'[<< k, g >>] + (IF g \in pending'[k] THEN 1 ELSE 0)
               <= joins'[<< k, g >>]
  <2>0. /\ \A i \in Peers : pending'[i] = IF i = n THEN pending[n] \ {h} ELSE pending[i]
        /\ \A i, j \in Peers : results'[<< i, j >>] =
             IF i = n /\ j = h /\ h \in pending[n] THEN results[<< n, h >>] + 1
                                                   ELSE results[<< i, j >>]
    <3>1. Resolve(n, h, TRUE) \/ Resolve(n, h, FALSE)
      BY <1>4
    <3>2. QED
      BY <1>0, <3>1, ResolveEffect
  <2>1. /\ pending'[k] = IF k = n THEN pending[n] \ {h} ELSE pending[k]
        /\ results'[<< k, g >>] =
             IF k = n /\ g = h /\ h \in pending[n] THEN results[<< n, h >>] + 1
                                                   ELSE results[<< k, g >>]
    BY <2>0
  <2>2. CASE k = n /\ g = h
    BY <1>2, <1>4, <2>1, <2>2
  <2>3. CASE ~(k = n /\ g = h)
    <3>1. results'[<< k, g >>] = results[<< k, g >>] /\ (g \in pending'[k] <=> g \in pending[k])
      BY <2>1, <2>3
    <3>2. QED
      BY <1>2, <1>4, <3>1
  <2>4. QED
    BY <2>2, <2>3
<1>5. ASSUME NEW n \in Peers, NEW h \in Peers, Join(n, h) \/ LoopJoin(n, h)
      PROVE  results'[<< k, g >>] + (IF g \in pending'[k] THEN 1 ELSE 0)
               <= joins'[<< k, g >>]
  <2>1. results' = results /\ Register(n, h)
    BY <1>5 DEF Join, LoopJoin
  <2>2. CASE k = n /\ g = h
    <3>1. joins'[<< k, g >>] = joins[<< k, g >>] + 1
      BY <1>0, <2>1, <2>2 DEF Register
    <3>2. QED
      BY <1>2, <2>1, <3>1
  <2>3. CASE ~(k = n /\ g = h)
    <3>1. joins'[<< k, g >>] = joins[<< k, g >>] /\ (g \in pending'[k] <=> g \in pending[k])
      BY <1>0, <2>1, <2>3 DEF Register
    <3>2. QED
      BY <1>2, <2>1, <3>1
  <2>4. QED
    BY <2>2, <2>3
<1>6. ASSUME NEW n \in Peers, NEW h \in Peers,
             \/ CheckJoin(n, h) \/ JoinRequest(n, h) \/ LoopRequest(n, h)
             \/ RetryTick(n, h) \/ RetrySend(n, h)
      PROVE  UNCHANGED << pending, joins, results >>
  BY <1>6
  DEF CheckJoin, JoinRequest, LoopRequest, RetryTick, RetrySend, clientVars, resultVars
<1>7. ASSUME NEW n \in Peers, NEW h \in Peers, JoinTimeout(n, h)
      PROVE  Resolve(n, h, FALSE) /\ UNCHANGED joins
  BY <1>7 DEF JoinTimeout
<1>8. ASSUME NEW n \in Peers, Forget(n)
      PROVE  results'[<< k, g >>] + (IF g \in pending'[k] THEN 1 ELSE 0)
               <= joins'[<< k, g >>]
  <2>1. CASE k = n
    <3>1. pending'[k] = {} /\ results'[<< k, g >>] = 0 /\ joins'[<< k, g >>] = 0
      BY <1>0, <1>8, <2>1 DEF Forget, Reset
    <3>2. QED
      BY <3>1
  <2>2. CASE k # n
    <3>1. /\ pending'[k] = pending[k]
          /\ results'[<< k, g >>] = results[<< k, g >>]
          /\ joins'[<< k, g >>] = joins[<< k, g >>]
      BY <1>0, <1>8, <2>2 DEF Forget, Reset
    <3>2. QED
      BY <1>2, <3>1
  <2>3. QED
    BY <2>1, <2>2
<1>9. QED
  BY <1>3, <1>4, <1>5, <1>6, <1>7, <1>8, AnswerSteps DEF Reopen, Crash

\* A pending join always has a timeout that will end it and a retry that will
\* ask again (client.go l.130-141).
THEOREM PendingIsAlwaysTimed == Spec => []PendingIsTimed
<1>1. Init => PendingIsTimed
  BY DEF Init, PendingIsTimed
<1>2. QED
  BY <1>1, TimedStep, HandshakeTypes, PTL DEF Spec

\* No attempt to join is answered twice (client.go l.88-102).
THEOREM NoJoinAnsweredTwice == Spec => []NoSecondResult
<1>1. Init => NoSecondResult
  BY DEF Init, NoSecondResult, Pairs
<1>2. QED
  BY <1>1, SecondResultStep, HandshakeTypes, PTL DEF Spec

-----------------------------------------------------------------------------
(***************************************************************************)
(* The addresses handed out: a node keeps the address it adopted, and      *)
(* shares it with nobody.  Neither property is inductive.  The             *)
(* strengthening follows an address from the pool that grants it, through  *)
(* the offer in the network and the verification of the interface, to the  *)
(* node that records it; and says who can have sent the messages that free *)
(* a lease.                                                                *)
(***************************************************************************)

\* The address is one of a pool, and that of h holds it for n, unless h
\* restarted or a farewell of n may undo it.
Backed(n, h, ip) ==
  /\ ip \in Addr
  /\ restarts[h] = 0 /\ h \notin spoiled[n] => pool[h].leases[n] = ip

\* A message from m to n is good if the address it offers is backed, and if
\* what it tells n to free counts as spoiled.
GoodMessage(m, n, msg) ==
  /\ msg.act = "offer" => Backed(n, m, msg.ip)
  /\ IsFarewell(msg) => n \in spoiled[m]

OffersBacked ==
  \A m, n \in Peers : \A msg \in ToSet(net[<< m, n >>]) : GoodMessage(m, n, msg)

OnOffer(l) == l.at = "verify" \/ l.at = "found"

VerifyBacked ==
  \A n \in Peers : OnOffer(loop[n]) => Backed(n, loop[n].from, loop[n].ip)

RecordBacked ==
  \A n \in Peers :
    firm[n] # NoPeer => firm[n] \notin spoiled[n] /\ Backed(n, firm[n], localIP[n])

AddressInv ==
  /\ TypeOK /\ PoolsSound
  /\ OffersBacked /\ VerifyBacked /\ RecordBacked

-----------------------------------------------------------------------------
(***************************************************************************)
(* What every step does that matters to the invariant.                     *)
(***************************************************************************)

\* Restarts are never forgotten, and a lease nobody gave up stays.
LeasesKept ==
  \A n, h \in Peers :
    /\ restarts'[h] = 0 => restarts[h] = 0
    /\ (restarts'[h] = 0 /\ h \notin spoiled[n] /\ pool[h].leases[n] # NoIP)
       => pool'[h].leases[n] = pool[h].leases[n]

\* Offers of h to n count again.
Refreshed(n, h) == h \in spoiled[n] /\ h \notin spoiled'[n]

\* They do when h has read every farewell of n, and n every older offer of h.
AfreshIsSound ==
  \A n, h \in Peers :
    Refreshed(n, h) =>
      /\ \A msg \in ToSet(net'[<< n, h >>]) : ~IsFarewell(msg)
      /\ \A msg \in ToSet(net'[<< h, n >>]) : msg.act = "offer" => Backed(n, h, msg.ip)'
      /\ OnOffer(loop'[n]) => loop'[n].from # h
      /\ firm'[n] # h

\* What is new in the network, in a verification or in a record is good.
GoodNews ==
  /\ \A m, n \in Peers : \A msg \in ToSet(net'[<< m, n >>]) :
       msg \in ToSet(net[<< m, n >>]) \/ GoodMessage(m, n, msg)'
  /\ \A n \in Peers :
       loop'[n] = loop[n] \/ (OnOffer(loop[n]) => Backed(n, loop[n].from, loop[n].ip))'
  /\ \A n \in Peers :
       \/ firm'[n] = NoPeer
       \/ /\ firm'[n] = firm[n] /\ localIP'[n] = localIP[n]
          /\ firm[n] \notin spoiled[n] => firm[n] \notin spoiled'[n]
       \/ firm'[n] \notin spoiled'[n] /\ Backed(n, firm[n], localIP[n])'

LEMMA NoIPApart == NoIP \notin Addr
  BY PoolAssumption DEF NoIP, Addr

\* Backing outlives every step that keeps leases and refreshes nothing.
LEMMA BackedStays ==
  ASSUME LeasesKept, NEW n \in Peers, NEW h \in Peers, NEW ip, Backed(n, h, ip),
         ~Refreshed(n, h)
  PROVE  Backed(n, h, ip)'
  BY NoIPApart DEF LeasesKept, Backed, Refreshed

\* A step that keeps leases and adds good news keeps the invariant.
LEMMA NewsIsEnough ==
  ASSUME AddressInv, LeasesKept, AfreshIsSound, GoodNews
  PROVE  OffersBacked' /\ VerifyBacked' /\ RecordBacked'
<1>1. OffersBacked'
  <2>1. SUFFICES ASSUME NEW m \in Peers, NEW n \in Peers, NEW msg \in ToSet(net'[<< m, n >>]),
                        msg \in ToSet(net[<< m, n >>])
                 PROVE  GoodMessage(m, n, msg)'
    BY DEF OffersBacked, GoodNews
  <2>2. GoodMessage(m, n, msg)
    BY <2>1 DEF AddressInv, OffersBacked
  <2>3. msg.act = "offer" => Backed(n, m, msg.ip)'
    <3>1. CASE Refreshed(n, m)
      BY <2>1, <3>1 DEF AfreshIsSound
    <3>2. CASE ~Refreshed(n, m)
      BY <2>2, <3>2, BackedStays DEF GoodMessage
    <3>3. QED
      BY <3>1, <3>2
  <2>4. IsFarewell(msg) => n \in spoiled'[m]
    <3>1. CASE Refreshed(m, n)
      BY <2>1, <3>1 DEF AfreshIsSound
    <3>2. CASE ~Refreshed(m, n)
      BY <2>2, <3>2 DEF GoodMessage, Refreshed
    <3>3. QED
      BY <3>1, <3>2
  <2>5. QED
    BY <2>3, <2>4 DEF GoodMessage, IsFarewell
<1>2. VerifyBacked'
  <2>1. SUFFICES ASSUME NEW n \in Peers, OnOffer(loop'[n]), loop'[n] = loop[n]
                 PROVE  Backed(n, loop[n].from, loop[n].ip)'
    BY DEF VerifyBacked, GoodNews, OnOffer
  <2>2. PICK h \in Peers, ip \in Address : loop[n].from = h /\ loop[n].ip = ip
    BY <2>1, VerifyingTypes DEF AddressInv, TypeOK, OnOffer
  <2>3. Backed(n, h, ip)
    BY <2>1, <2>2 DEF AddressInv, VerifyBacked
  <2>4. ~Refreshed(n, h)
    BY <2>1, <2>2 DEF AfreshIsSound
  <2>5. Backed(n, h, ip)'
    BY <2>3, <2>4, BackedStays
  <2>6. QED
    BY <2>1, <2>2, <2>5 DEF Backed
<1>3. RecordBacked'
  <2>1. SUFFICES ASSUME NEW n \in Peers, firm'[n] # NoPeer,
                        firm'[n] = firm[n], localIP'[n] = localIP[n],
                        firm[n] \notin spoiled[n] => firm[n] \notin spoiled'[n]
                 PROVE  firm'[n] \notin spoiled'[n] /\ Backed(n, firm[n], localIP[n])'
    BY DEF RecordBacked, GoodNews
  <2>2. PICK h \in Peers, ip \in Address : firm[n] = h /\ localIP[n] = ip
    BY <2>1 DEF AddressInv, TypeOK, ClientTypes, HistoryTypes
  <2>3. h \notin spoiled[n] /\ Backed(n, h, ip)
    BY <2>1, <2>2 DEF AddressInv, RecordBacked
  <2>4. Backed(n, h, ip)'
    BY <2>3, BackedStays DEF Refreshed
  <2>5. QED
    BY <2>1, <2>2, <2>3, <2>4 DEF Backed
<1>4. QED
  BY <1>1, <1>2, <1>3

-----------------------------------------------------------------------------
(***************************************************************************)
(* Every step keeps the leases.                                            *)
(***************************************************************************)

\* Allocation leaves the leases that are held; a release leaves all but one.
LEMMA OtherLeasesKept ==
  ASSUME NEW p \in Pool, NEW id \in Peers, NEW k \in Peers
  PROVE  /\ p.leases[k] # NoIP => AfterAllocate(p, id).leases[k] = p.leases[k]
         /\ k # id => AfterRelease(p, id).leases[k] = p.leases[k]
<1>0. p.leases \in [Peers -> Addr \cup {NoIP}]
  BY PoolParts
<1>1. k # id => AfterRelease(p, id).leases[k] = p.leases[k]
  BY <1>0 DEF AfterRelease, Pool
<1>2. ASSUME p.leases[k] # NoIP PROVE AfterAllocate(p, id).leases[k] = p.leases[k]
  <2>1. CASE Holds(p, id)
    BY <2>1 DEF AfterAllocate
  <2>2. CASE ~Holds(p, id)
    <3>1. k # id
      BY <1>2, <2>2 DEF Holds
    <3>2. AfterAllocate(p, id).leases = [p.leases EXCEPT ![id] = Granted(p, id)]
      BY <2>2 DEF AfterAllocate
    <3>3. QED
      BY <1>0, <3>1, <3>2
  <2>3. QED
    BY <2>1, <2>2
<1>3. QED
  BY <1>1, <1>2

\* Refusals and restarts are never forgotten.
LEMMA HistoryGrows ==
  ASSUME TypeOK, [Next]_vars, NEW k \in Peers
  PROVE  /\ gaveUp[k] \subseteq gaveUp'[k]
         /\ restarts'[k] = 0 => restarts[k] = 0
<1> DEFINE Grows == /\ gaveUp[k] \subseteq gaveUp'[k]
                    /\ restarts'[k] = 0 => restarts[k] = 0
<1>0. /\ gaveUp \in [Peers -> SUBSET Peers]
      /\ restarts \in [Peers -> Nat]
  BY DEF TypeOK, HistoryTypes
<1>1. ASSUME NEW n \in Peers, StartStep(n) \/ Close(n) PROVE Grows
  BY <1>1
  DEF StartStep, Start, RequestBootstrap, AssignHostIP, RecordHostIP, Close, historyVars,
      farewellVars
<1>2. ASSUME NEW n \in Peers, Leave(n) PROVE Grows
  BY <1>0, <1>2 DEF Leave, GiveUpOn
<1>3. ASSUME NEW n \in Peers, Forget(n) PROVE Grows
  <2>1. restarts' = [restarts EXCEPT ![n] = @ + 1] /\ UNCHANGED gaveUp
    BY <1>3 DEF Forget
  <2>2. QED
    BY <1>0, <2>1
<1>4. ASSUME NEW n \in Peers, NEW m \in Peers,
             \/ CheckJoin(n, m) \/ Join(n, m) \/ JoinRequest(n, m)
             \/ LoopJoin(n, m) \/ LoopRequest(n, m) \/ TimerStep(n, m) \/ GateStep(n, m)
      PROVE  Grows
  BY <1>4
  DEF CheckJoin, Join, JoinRequest, LoopJoin, LoopRequest, TimerStep, JoinTimeout, RetryTick,
      RetrySend, GhostAsk, GhostEnds, GateStep, Ask, Accept, Deny, Drop, historyVars,
      farewellVars
<1>5. ASSUME NEW n \in Peers, VerifyFinds(n) \/ Confirm(n) PROVE Grows
  BY <1>5 DEF VerifyFinds, Confirm, historyVars, farewellVars
<1>6. ASSUME NEW n \in Peers, VerifyMisses(n) PROVE Grows
  BY <1>0, <1>6 DEF VerifyMisses, GiveUpOn
<1>7. ASSUME NEW n \in Peers, NEW m \in Peers, OnRequestIP(n, m) PROVE Grows
  BY <1>7 DEF OnRequestIP
<1>8. ASSUME NEW n \in Peers, NEW m \in Peers, OnOfferIP(n, m) PROVE Grows
  <2>1. UNCHANGED gaveUp \/ GiveUpOn(n, {m})
    BY <1>8 DEF OnOfferIP, farewellVars
  <2>2. UNCHANGED restarts
    BY <1>8 DEF OnOfferIP
  <2>3. QED
    BY <1>0, <2>1, <2>2 DEF GiveUpOn
<1>9. ASSUME NEW n \in Peers, NEW m \in Peers,
             OnAckIP(n, m) \/ OnNackIP(n, m) \/ OnDisconnect(n, m)
      PROVE  Grows
  BY <1>9 DEF OnAckIP, OnNackIP, OnDisconnect, historyVars, farewellVars
<1>10. CASE UNCHANGED vars
  BY <1>10 DEF vars, historyVars, farewellVars
<1>11. QED
  BY <1>1, <1>2, <1>3, <1>4, <1>5, <1>6, <1>7, <1>8, <1>9, <1>10
  DEF Next, ReadLoopStep, Reopen, Crash

\* Only farewells and offers change what is spoiled.
LEMMA SpoiledSteps ==
  ASSUME TypeOK, [Next]_vars
  PROVE  \/ UNCHANGED spoiled
         \/ \E n \in Peers : \E ms \in SUBSET Peers : Farewell(n, ms)
         \/ \E n, m \in Peers : OnRequestIP(n, m) /\ Offered(n, m) /\ UNCHANGED firm
<1> DEFINE Parted == \E n \in Peers : \E ms \in SUBSET Peers : Farewell(n, ms)
<1>0. peers \in [Peers -> SUBSET Peers]
  BY DEF TypeOK, ClientTypes
<1>1. ASSUME NEW n \in Peers,
             StartStep(n) \/ Close(n) \/ Forget(n) \/ VerifyFinds(n) \/ Confirm(n)
      PROVE  UNCHANGED spoiled
  BY <1>1
  DEF StartStep, Start, RequestBootstrap, AssignHostIP, RecordHostIP, Close, Forget,
      VerifyFinds, Confirm, historyVars, farewellVars
<1>2. ASSUME NEW n \in Peers, NEW m \in Peers,
             \/ CheckJoin(n, m) \/ Join(n, m) \/ JoinRequest(n, m)
             \/ LoopJoin(n, m) \/ LoopRequest(n, m) \/ TimerStep(n, m) \/ GateStep(n, m)
             \/ OnAckIP(n, m) \/ OnNackIP(n, m) \/ OnDisconnect(n, m)
      PROVE  UNCHANGED spoiled
  BY <1>2
  DEF CheckJoin, Join, JoinRequest, LoopJoin, LoopRequest, TimerStep, JoinTimeout, RetryTick,
      RetrySend, GhostAsk, GhostEnds, GateStep, Ask, Accept, Deny, Drop, OnAckIP, OnNackIP,
      OnDisconnect, historyVars, farewellVars
<1>3. ASSUME NEW n \in Peers, NEW m \in Peers, OnRequestIP(n, m)
      PROVE  Parted \/ (Offered(n, m) /\ UNCHANGED firm)
  <2>1. Farewell(n, {m}) \/ (Offered(n, m) /\ UNCHANGED firm)
    BY <1>3 DEF OnRequestIP
  <2>2. {m} \in SUBSET Peers
    OBVIOUS
  <2>3. QED
    BY <2>1, <2>2
<1>4. ASSUME NEW n \in Peers, NEW m \in Peers, OnOfferIP(n, m)
      PROVE  Parted \/ UNCHANGED spoiled
  <2>1. UNCHANGED spoiled \/ Farewell(n, {m})
    BY <1>4 DEF OnOfferIP, GiveUpOn, farewellVars
  <2>2. {m} \in SUBSET Peers
    OBVIOUS
  <2>3. QED
    BY <2>1, <2>2
<1>5. ASSUME NEW n \in Peers, VerifyMisses(n) PROVE Parted
  <2>1. loop[n].from \in Peers /\ Farewell(n, {loop[n].from})
    BY <1>5, VerifyingTypes DEF VerifyMisses, GiveUpOn, TypeOK
  <2>2. {loop[n].from} \in SUBSET Peers
    BY <2>1
  <2>3. QED
    BY <2>1, <2>2
<1>6. ASSUME NEW n \in Peers, Leave(n) PROVE Parted
  BY <1>0, <1>6 DEF Leave, GiveUpOn
<1>7. CASE UNCHANGED vars
  BY <1>7 DEF vars, historyVars, farewellVars
<1>8. QED
  BY <1>1, <1>2, <1>3, <1>4, <1>5, <1>6, <1>7 DEF Next, ReadLoopStep, Reopen, Crash

\* What a farewell spoils, no node relies on any more.
LEMMA SpoiledIsLetGo ==
  ASSUME TypeOK, [Next]_vars, NEW k \in Peers, NEW h \in Peers,
         h \notin spoiled[k], h \in spoiled'[k]
  PROVE  firm'[k] # h
<1>0. /\ spoiled \in [Peers -> SUBSET Peers]
      /\ firm \in [Peers -> Peers \cup {NoPeer}]
      /\ NoPeer \notin Peers
  BY HandshakeAssumption DEF TypeOK, HistoryTypes
<1>1. ASSUME NEW n \in Peers, NEW ms \in SUBSET Peers, Farewell(n, ms)
      PROVE  firm'[k] # h
  <2>1. /\ spoiled' = [spoiled EXCEPT ![n] = @ \cup ms]
        /\ firm' = [firm EXCEPT ![n] = IF @ \in ms THEN NoPeer ELSE @]
    BY <1>1 DEF Farewell
  <2>2. k = n /\ h \in ms
    BY <1>0, <2>1
  <2>3. firm'[k] = IF firm[k] \in ms THEN NoPeer ELSE firm[k]
    BY <1>0, <2>1, <2>2
  <2>4. QED
    BY <1>0, <2>2, <2>3
<1>2. ASSUME NEW n \in Peers, NEW m \in Peers, Offered(n, m) PROVE FALSE
  <2>1. CASE StartsAfresh(n, m)
    BY <1>0, <1>2, <2>1 DEF Offered
  <2>2. CASE ~StartsAfresh(n, m)
    BY <1>2, <2>2 DEF Offered
  <2>3. QED
    BY <2>1, <2>2
<1>3. QED
  BY <1>1, <1>2, SpoiledSteps

\* Only an offer that starts afresh makes offers count again.
LEMMA RefreshSteps ==
  ASSUME TypeOK, [Next]_vars, NEW k \in Peers, NEW h \in Peers, Refreshed(k, h)
  PROVE  OnRequestIP(h, k) /\ StartsAfresh(h, k) /\ UNCHANGED << loop, firm >>
<1>0. spoiled \in [Peers -> SUBSET Peers] /\ h \in spoiled[k] /\ h \notin spoiled'[k]
  BY DEF TypeOK, HistoryTypes, Refreshed
<1>1. ASSUME NEW n \in Peers, NEW ms \in SUBSET Peers, Farewell(n, ms) PROVE FALSE
  BY <1>0, <1>1 DEF Farewell
<1>2. PICK n \in Peers, m \in Peers : OnRequestIP(n, m) /\ Offered(n, m) /\ UNCHANGED firm
  BY <1>0, <1>1, SpoiledSteps
<1>3. StartsAfresh(n, m) /\ spoiled' = [spoiled EXCEPT ![m] = @ \ {n}]
  BY <1>0, <1>2 DEF Offered
<1>4. k = m /\ h = n
  BY <1>0, <1>3
<1>5. UNCHANGED loop
  BY <1>2 DEF OnRequestIP
<1>6. QED
  BY <1>2, <1>3, <1>4, <1>5

\* Every step keeps the leases that nobody gave up: a lease is freed only at
\* the word of its holder.
LEMMA StepKeepsLeases ==
  ASSUME AddressInv, [Next]_vars
  PROVE  LeasesKept
<1>0. TypeOK /\ pool \in [Peers -> Pool]
  BY DEF AddressInv, TypeOK, ClientTypes
<1>00. \A k \in Peers : restarts'[k] = 0 => restarts[k] = 0
  BY <1>0, HistoryGrows
<1>1. SUFFICES ASSUME NEW k \in Peers, NEW h \in Peers,
                      restarts'[h] = 0, h \notin spoiled[k],
                      pool[h].leases[k] # NoIP
               PROVE  pool'[h].leases[k] = pool[h].leases[k]
  BY <1>00 DEF LeasesKept
<1>2. CASE UNCHANGED pool
  BY <1>2
<1>3. ASSUME NEW n \in Peers, Forget(n) PROVE pool'[h].leases[k] = pool[h].leases[k]
  <2>1. /\ restarts' = [restarts EXCEPT ![n] = @ + 1]
        /\ pool' = [pool EXCEPT ![n] = NewPool]
    BY <1>3 DEF Forget
  <2>2. n # h
    BY <1>0, <1>1, <2>1 DEF TypeOK, HistoryTypes
  <2>3. QED
    BY <1>0, <2>1, <2>2
<1>4. ASSUME NEW n \in Peers, NEW m \in Peers, OnRequestIP(n, m)
      PROVE  pool'[h].leases[k] = pool[h].leases[k]
  BY <1>0, <1>1, <1>4, OtherLeasesKept DEF OnRequestIP
<1>5. ASSUME NEW n \in Peers, NEW m \in Peers, OnNackIP(n, m) \/ OnDisconnect(n, m)
      PROVE  pool'[h].leases[k] = pool[h].leases[k]
  <2>1. pool' = [pool EXCEPT ![n] = AfterRelease(@, m)]
    BY <1>5 DEF OnNackIP, OnDisconnect
  <2>2. n \in spoiled[m]
    <3>1. /\ net[<< m, n >>] # << >> /\ net[<< m, n >>] \in Seq(Message)
          /\ Head(net[<< m, n >>]).act \in {"nack", "disconnect"}
      BY <1>0, <1>5 DEF OnNackIP, OnDisconnect, CanReceive, TypeOK, SteamTypes, Pairs
    <3>2. Head(net[<< m, n >>]) \in ToSet(net[<< m, n >>])
      BY <3>1, TailElements
    <3>3. QED
      BY <3>1, <3>2 DEF AddressInv, OffersBacked, GoodMessage, IsFarewell
  <2>3. ~(n = h /\ m = k)
    BY <1>1, <2>2
  <2>4. QED
    BY <1>0, <2>1, <2>3, OtherLeasesKept
<1>6. QED
  BY <1>0, <1>2, <1>3, <1>4, <1>5, PoolSteps

-----------------------------------------------------------------------------
(***************************************************************************)
(* Every step brings good news only.                                       *)
(***************************************************************************)

\* A message that neither offers nor frees anything is good.
LEMMA HarmlessMessage ==
  ASSUME NEW m \in Peers, NEW n \in Peers, NEW msg, msg.act \in {"request", "ack"}
  PROVE  GoodMessage(m, n, msg)'
<1>1. msg.act \notin {"offer", "nack", "disconnect"}
  OBVIOUS
<1>2. QED
  BY <1>1 DEF GoodMessage, IsFarewell

\* A refusal, and a departure, are good once what they undo is spoiled.
LEMMA FarewellMessage ==
  ASSUME NEW m \in Peers, NEW n \in Peers, NEW msg, msg.act \in {"nack", "disconnect"},
         n \in spoiled'[m]
  PROVE  GoodMessage(m, n, msg)'
<1>1. msg.act # "offer"
  OBVIOUS
<1>2. QED
  BY <1>1 DEF GoodMessage, IsFarewell

\* A host refuses a request, or offers the address its pool then holds.
LEMMA AnswerCases ==
  ASSUME TypeOK, NEW n \in Peers, NEW m \in Peers, OnRequestIP(n, m)
  PROVE  \/ TakeAndAnswer(n, m, Msg("nack", NoIP)) /\ Farewell(n, {m})
         \/ \E ip \in Addr : /\ TakeAndAnswer(n, m, Msg("offer", ip))
                             /\ Backed(m, n, ip)'
<1>. PICK ip : ip = Granted(pool[n], m)
  OBVIOUS
<1>0. pool \in [Peers -> Pool] /\ pool[n] \in Pool
  BY DEF TypeOK, ClientTypes
<1>1. CASE ip = NoIP
  BY <1>1 DEF OnRequestIP
<1>2. CASE ip # NoIP
  <2>1. /\ TakeAndAnswer(n, m, Msg("offer", ip))
        /\ pool' = [pool EXCEPT ![n] = AfterAllocate(@, m)]
    BY <1>2 DEF OnRequestIP
  <2>2. AfterAllocate(pool[n], m).leases[m] = ip
    <3>1. CASE Holds(pool[n], m)
      BY <3>1 DEF AfterAllocate, Granted
    <3>2. CASE ~Holds(pool[n], m)
      <4>1. AfterAllocate(pool[n], m).leases = [pool[n].leases EXCEPT ![m] = ip]
        BY <3>2 DEF AfterAllocate
      <4>2. QED
        BY <1>0, <4>1, PoolParts
    <3>3. QED
      BY <3>1, <3>2
  <2>3. pool'[n].leases[m] = ip
    BY <1>0, <2>1, <2>2
  <2>4. ip \in Addr
    BY <1>0, <1>2, PoolTypes
  <2>5. Backed(m, n, ip)'
    BY <2>3, <2>4 DEF Backed
  <2>6. QED
    BY <2>1, <2>4, <2>5
<1>3. QED
  BY <1>1, <1>2

\* Either answer is good.
LEMMA AnswerIsGood ==
  ASSUME TypeOK, NEW n \in Peers, NEW m \in Peers, OnRequestIP(n, m)
  PROVE  \E msg \in Message : /\ TakeAndAnswer(n, m, msg)
                              /\ GoodMessage(n, m, msg)'
<1>0. spoiled \in [Peers -> SUBSET Peers]
  BY DEF TypeOK, HistoryTypes
<1>1. CASE TakeAndAnswer(n, m, Msg("nack", NoIP)) /\ Farewell(n, {m})
  <2>1. m \in spoiled'[n] /\ Msg("nack", NoIP).act = "nack"
    BY <1>0, <1>1 DEF Farewell, Msg
  <2>2. QED
    BY <1>1, <2>1, FarewellMessage, MessageTypes
<1>2. ASSUME NEW ip \in Addr, TakeAndAnswer(n, m, Msg("offer", ip)), Backed(m, n, ip)'
      PROVE  \E msg \in Message : /\ TakeAndAnswer(n, m, msg)
                                  /\ GoodMessage(n, m, msg)'
  <2>1. Msg("offer", ip) \in Message /\ Msg("offer", ip).act = "offer" /\ Msg("offer", ip).ip = ip
    BY MessageTypes, AddressTypes DEF Msg
  <2>2. GoodMessage(n, m, Msg("offer", ip))'
    BY <1>2, <2>1 DEF GoodMessage, IsFarewell
  <2>3. QED
    BY <1>2, <2>1, <2>2
<1>3. QED
  BY <1>1, <1>2, AnswerCases

\* Of the queue it takes from, an answer leaves what was behind the head.
LEMMA AnswerTakes ==
  ASSUME SteamTypes, NEW n \in Peers, NEW m \in Peers, NEW msg \in Message,
         net[<< m, n >>] # << >>, TakeAndAnswer(n, m, msg)
  PROVE  \A x \in ToSet(net'[<< m, n >>]) : x \in ToSet(Tail(net[<< m, n >>])) \/ x = msg
<1> DEFINE mid == [net EXCEPT ![<< m, n >>] = Tail(net[<< m, n >>])]
<1>1. /\ << m, n >> \in Pairs /\ net[<< m, n >>] \in Seq(Message)
      /\ << n, m >> \in Pairs
      /\ net \in [Pairs -> Seq(Message)]
  BY DEF Pairs, SteamTypes
<1> DEFINE left == Tail(net[<< m, n >>])
<1>2. left \in Seq(Message)
  BY <1>1, QueueElements
<1>3. /\ mid \in [Pairs -> Seq(Message)]
      /\ mid[<< m, n >>] = left
  BY <1>1, <1>2
<1>4. net' = [mid EXCEPT ![<< n, m >>] = Append(mid[<< n, m >>], msg)]
  BY DEF TakeAndAnswer
<1> HIDE DEF mid, left
<1>5. CASE << n, m >> = << m, n >>
  <2>1. net'[<< m, n >>] = Append(left, msg)
    BY <1>1, <1>3, <1>4, <1>5
  <2>2. ToSet(Append(left, msg)) = ToSet(left) \cup {msg}
    BY <1>2, QueueElements
  <2>3. QED
    BY <2>1, <2>2 DEF left
<1>6. CASE << n, m >> # << m, n >>
  <2>1. net'[<< m, n >>] = left
    BY <1>1, <1>3, <1>4, <1>6
  <2>2. QED
    BY <2>1 DEF left
<1>7. QED
  BY <1>5, <1>6

\* When offers count again, every farewell has been read, and every offer on
\* its way is backed.
LEMMA RefreshIsSound ==
  ASSUME AddressInv, [Next]_vars
  PROVE  AfreshIsSound
<1>1. SUFFICES ASSUME NEW k \in Peers, NEW h \in Peers, Refreshed(k, h)
               PROVE  /\ \A msg \in ToSet(net'[<< k, h >>]) : ~IsFarewell(msg)
                      /\ \A msg \in ToSet(net'[<< h, k >>]) :
                           msg.act = "offer" => Backed(k, h, msg.ip)'
                      /\ OnOffer(loop'[k]) => loop'[k].from # h
                      /\ firm'[k] # h
  BY DEF AfreshIsSound
<1>2. TypeOK /\ SteamTypes /\ spoiled \in [Peers -> SUBSET Peers]
  BY DEF AddressInv, TypeOK, HistoryTypes
<1>3. OnRequestIP(h, k) /\ StartsAfresh(h, k) /\ UNCHANGED << loop, firm >>
  BY <1>1, <1>2, RefreshSteps
<1>4. h \in spoiled[k] /\ h \notin spoiled'[k]
  BY <1>1 DEF Refreshed
<1>5. firm'[k] # h
  BY <1>3, <1>4, HandshakeAssumption DEF AddressInv, RecordBacked
<1>6. OnOffer(loop'[k]) => loop'[k].from # h
  BY <1>3 DEF StartsAfresh, OnOffer
<1>7. net[<< k, h >>] # << >> /\ << k, h >> \in Pairs /\ net[<< k, h >>] \in Seq(Message)
  BY <1>2, <1>3 DEF OnRequestIP, CanReceive, Pairs, SteamTypes
<1>8. PICK ip \in Addr : TakeAndAnswer(h, k, Msg("offer", ip)) /\ Backed(k, h, ip)'
  <2>1. ASSUME Farewell(h, {k}) PROVE FALSE
    BY <1>2, <1>4, <2>1 DEF Farewell
  <2>2. QED
    BY <1>2, <1>3, <2>1, AnswerCases
<1>9. DEFINE msg == Msg("offer", ip)
<1>10. msg \in Message /\ msg.act = "offer" /\ msg.ip = ip
  BY MessageTypes, AddressTypes DEF Msg
<1> HIDE DEF msg
<1>11. \A x \in ToSet(net'[<< k, h >>]) : ~IsFarewell(x)
  <2>1. \A x \in ToSet(Tail(net[<< k, h >>])) : ~IsFarewell(x)
    BY <1>3 DEF StartsAfresh, ToSet
  <2>2. ~IsFarewell(msg)
    BY <1>10 DEF IsFarewell
  <2>3. QED
    BY <1>2, <1>7, <1>8, <1>10, <2>1, <2>2, AnswerTakes DEF msg
<1>12. \A x \in ToSet(net'[<< h, k >>]) : x.act = "offer" => Backed(k, h, x.ip)'
  <2>1. << h, k >> \in Pairs
    BY DEF Pairs
  <2>2. ToSet(net'[<< h, k >>]) \subseteq ToSet(net[<< h, k >>]) \cup {msg}
    <3>1. TakeAndAnswer(h, k, msg)
      BY <1>8 DEF msg
    <3>2. QED
      BY <1>2, <1>7, <1>10, <2>1, <3>1, AnswerElements
  <2>3. \A x \in ToSet(net[<< h, k >>]) : x.act # "offer"
    BY <1>3 DEF StartsAfresh, ToSet
  <2>4. QED
    BY <1>8, <1>10, <2>2, <2>3
<1>13. QED
  BY <1>5, <1>6, <1>11, <1>12

\* Every message a step adds to the network is good.
LEMMA NetworkNews ==
  ASSUME AddressInv, LeasesKept, [Next]_vars, NEW p \in Peers, NEW q \in Peers,
         NEW msg \in ToSet(net'[<< p, q >>])
  PROVE  msg \in ToSet(net[<< p, q >>]) \/ GoodMessage(p, q, msg)'
<1> DEFINE Good == msg \in ToSet(net[<< p, q >>]) \/ GoodMessage(p, q, msg)'
<1>0. /\ TypeOK /\ ClientTypes /\ SteamTypes
      /\ << p, q >> \in Pairs
      /\ spoiled \in [Peers -> SUBSET Peers]
  BY DEF AddressInv, TypeOK, HistoryTypes, Pairs
<1>1. CASE UNCHANGED net
  BY <1>1
<1>2. ASSUME NEW n \in Peers, NEW m \in Peers, net[<< m, n >>] # << >>, Take(n, m)
      PROVE  Good
  BY <1>0, <1>2, TakeElements
<1>3. ASSUME NEW n \in Peers, NEW m \in Peers, NEW x \in Message, Send(n, m, x),
             GoodMessage(n, m, x)'
      PROVE  Good
  <2>0. ToSet(net'[<< p, q >>]) =
          ToSet(net[<< p, q >>]) \cup (IF << p, q >> = << n, m >> THEN {x} ELSE {})
    BY <1>0, <1>3, SendElements
  <2>1. msg \in ToSet(net[<< p, q >>]) \/ (p = n /\ q = m /\ msg = x)
    BY <2>0
  <2>2. QED
    BY <1>3, <2>1
<1>4. ASSUME NEW n \in Peers, NEW m \in Peers, NEW x \in Message,
             net[<< m, n >>] # << >>, TakeAndAnswer(n, m, x), GoodMessage(n, m, x)'
      PROVE  Good
  <2>0. ToSet(net'[<< p, q >>]) \subseteq
          ToSet(net[<< p, q >>]) \cup (IF << p, q >> = << n, m >> THEN {x} ELSE {})
    BY <1>0, <1>4, AnswerElements
  <2>1. msg \in ToSet(net[<< p, q >>]) \/ (p = n /\ q = m /\ msg = x)
    BY <2>0
  <2>2. QED
    BY <1>4, <2>1
<1>5. ASSUME NEW n \in Peers, NEW m \in Peers, Send(n, m, Msg("request", NoIP))
      PROVE  Good
  <2>1. Msg("request", NoIP) \in Message /\ Msg("request", NoIP).act = "request"
    BY MessageTypes DEF Msg
  <2>2. QED
    BY <1>3, <1>5, <2>1, HarmlessMessage
<1>6. ASSUME NEW n \in Peers, RequestBootstrap(n) PROVE Good
  BY <1>1, <1>5, <1>6, HandshakeAssumption DEF RequestBootstrap, AskFor
<1>7. ASSUME NEW n \in Peers, NEW m \in Peers,
             JoinRequest(n, m) \/ LoopRequest(n, m) \/ RetrySend(n, m) \/ GhostAsk(n, m)
      PROVE  Good
  BY <1>1, <1>5, <1>7 DEF JoinRequest, LoopRequest, RetrySend, GhostAsk, AskFor
<1>8. ASSUME NEW n \in Peers,
             \/ Start(n) \/ AssignHostIP(n) \/ RecordHostIP(n) \/ Close(n) \/ Forget(n)
             \/ VerifyFinds(n)
      PROVE  UNCHANGED net
  BY <1>8 DEF Start, AssignHostIP, RecordHostIP, Close, Forget, VerifyFinds, steamVars
<1>9. ASSUME NEW n \in Peers, NEW m \in Peers,
             \/ CheckJoin(n, m) \/ Join(n, m) \/ LoopJoin(n, m) \/ JoinTimeout(n, m)
             \/ RetryTick(n, m) \/ GhostEnds(n, m) \/ Ask(n, m) \/ Accept(n, m)
      PROVE  UNCHANGED net
  BY <1>9
  DEF CheckJoin, Join, LoopJoin, JoinTimeout, RetryTick, GhostEnds, Ask, Accept, steamVars
<1>10. ASSUME NEW n \in Peers, NEW m \in Peers,
              OnAckIP(n, m) \/ OnNackIP(n, m) \/ OnDisconnect(n, m) \/ Drop(n, m)
       PROVE  Good
  BY <1>2, <1>10 DEF OnAckIP, OnNackIP, OnDisconnect, Drop, CanReceive
<1>11. ASSUME NEW n \in Peers, NEW m \in Peers, Deny(n, m) PROVE Good
  <2>1. net' = [net EXCEPT ![<< m, n >>] = << >>]
    BY <1>11 DEF Deny
  <2>2. net'[<< p, q >>] = net[<< p, q >>] \/ net'[<< p, q >>] = << >>
    BY <1>0, <2>1 DEF SteamTypes
  <2>3. ToSet(<< >>) = {}
    BY DEF ToSet
  <2>4. QED
    BY <2>2, <2>3
<1>12. ASSUME NEW n \in Peers, NEW m \in Peers, OnRequestIP(n, m) PROVE Good
  <2>1. net[<< m, n >>] # << >>
    BY <1>12 DEF OnRequestIP, CanReceive
  <2>2. QED
    BY <1>0, <1>4, <1>12, <2>1, AnswerIsGood
<1>13. ASSUME NEW n \in Peers, NEW m \in Peers, GiveUpOn(n, {m})
       PROVE  m \in spoiled'[n]
  BY <1>0, <1>13 DEF GiveUpOn, Farewell
<1>14. ASSUME NEW n \in Peers, NEW m \in Peers, OnOfferIP(n, m) PROVE Good
  <2>1. net[<< m, n >>] # << >>
    BY <1>14 DEF OnOfferIP, CanReceive
  <2>2. \/ Take(n, m)
        \/ TakeAndAnswer(n, m, Msg("nack", NoIP)) /\ GiveUpOn(n, {m})
    BY <1>14 DEF OnOfferIP
  <2>3. Msg("nack", NoIP) \in Message /\ Msg("nack", NoIP).act = "nack"
    BY MessageTypes DEF Msg
  <2>4. QED
    BY <1>2, <1>4, <1>13, <2>1, <2>2, <2>3, FarewellMessage
<1>15. ASSUME NEW n \in Peers, Confirm(n) \/ VerifyMisses(n) PROVE Good
  <2>1. loop[n].at = "verify" \/ loop[n].at = "found"
    BY <1>15 DEF Confirm, VerifyMisses
  <2>2. PICK m \in Peers, ip \in Address : loop[n].from = m /\ loop[n].ip = ip
    BY <1>0, <2>1, VerifyingTypes
  <2>3. \/ Send(n, m, Msg("ack", ip))
        \/ Send(n, m, Msg("nack", ip)) /\ GiveUpOn(n, {m})
    BY <1>15, <2>2 DEF Confirm, VerifyMisses
  <2>4. /\ Msg("nack", ip) \in Message /\ Msg("nack", ip).act = "nack"
        /\ Msg("ack", ip) \in Message /\ Msg("ack", ip).act = "ack"
    BY MessageTypes DEF Msg
  <2>5. QED
    BY <1>3, <1>13, <2>3, <2>4, HarmlessMessage, FarewellMessage
<1>16. ASSUME NEW n \in Peers, Leave(n) PROVE Good
  <2>1. \/ msg \in ToSet(net[<< p, q >>])
        \/ p = n /\ q \in peers[n] /\ msg = Msg("disconnect", localIP[n])
    BY <1>0, <1>16, LeaveElements
  <2>2. spoiled'[n] = spoiled[n] \cup peers[n]
    BY <1>0, <1>16 DEF Leave, GiveUpOn, Farewell
  <2>3. Msg("disconnect", localIP[n]).act = "disconnect"
    BY DEF Msg
  <2>4. QED
    BY <2>1, <2>2, <2>3, FarewellMessage
<1>17. CASE UNCHANGED vars
  BY <1>17 DEF vars, steamVars
<1>18. QED
  BY <1>1, <1>6, <1>7, <1>8, <1>9, <1>10, <1>11, <1>12, <1>14, <1>15, <1>16, <1>17
  DEF Next, StartStep, ReadLoopStep, TimerStep, GateStep, Reopen, Crash

\* Every verification a step begins, or ends well, is of a good offer.
LEMMA LoopNews ==
  ASSUME AddressInv, LeasesKept, [Next]_vars, NEW k \in Peers
  PROVE  loop'[k] = loop[k] \/ (OnOffer(loop[k]) => Backed(k, loop[k].from, loop[k].ip))'
<1> DEFINE Good ==
      loop'[k] = loop[k] \/ (OnOffer(loop[k]) => Backed(k, loop[k].from, loop[k].ip))'
<1>0. /\ TypeOK /\ SteamTypes /\ loop \in [Peers -> LoopStates]
      /\ \A n, m \in Peers : << m, n >> \in Pairs /\ net[<< m, n >>] \in Seq(Message)
  BY DEF AddressInv, TypeOK, ClientTypes, SteamTypes, Pairs
<1>1. CASE UNCHANGED loop
  BY <1>1
<1>2. ASSUME NEW n \in Peers, NEW l, loop' = [loop EXCEPT ![n] = l], ~OnOffer(l)
      PROVE  Good
  <2>1. CASE k = n
    BY <1>0, <1>2, <2>1 DEF OnOffer
  <2>2. CASE k # n
    BY <1>0, <1>2, <2>2
  <2>3. QED
    BY <2>1, <2>2
<1>9. ASSUME NEW n \in Peers, NEW h \in Peers, NEW ip, NEW l, loop' = [loop EXCEPT ![n] = l],
             l.from = h, l.ip = ip, Backed(n, h, ip), ~(UNCHANGED loop)
      PROVE  Good
  <2>1. ~Refreshed(n, h)
    BY <1>0, <1>9, RefreshSteps
  <2>2. Backed(n, h, ip)'
    BY <1>9, <2>1, BackedStays
  <2>3. CASE k = n
    <3>1. loop'[k].from = h /\ loop'[k].ip = ip
      BY <1>0, <1>9, <2>3
    <3>2. QED
      BY <2>2, <2>3, <3>1 DEF Backed
  <2>4. CASE k # n
    BY <1>0, <1>9, <2>4
  <2>5. QED
    BY <2>3, <2>4
<1>3. ASSUME NEW n \in Peers, NEW m \in Peers, OnOfferIP(n, m)
      PROVE  Good
  <2>1. PICK msg \in Message : msg = Head(net[<< m, n >>]) /\ msg \in ToSet(net[<< m, n >>])
    <3>1. net[<< m, n >>] # << >>
      BY <1>3 DEF OnOfferIP, CanReceive
    <3>2. QED
      BY <1>0, <3>1, TailElements
  <2>2. \/ UNCHANGED loop
        \/ msg.act = "offer" /\ loop' = [loop EXCEPT ![n] = Verifying(m, msg.ip)]
    BY <1>3, <2>1 DEF OnOfferIP, CanReceive
  <2>3. msg.act = "offer" => Backed(n, m, msg.ip)
    BY <2>1 DEF AddressInv, OffersBacked, GoodMessage
  <2>4. Verifying(m, msg.ip).from = m /\ Verifying(m, msg.ip).ip = msg.ip
    BY DEF Verifying
  <2>5. QED
    BY <1>1, <1>9, <2>2, <2>3, <2>4
<1>10. ASSUME NEW n \in Peers, VerifyFinds(n) PROVE Good
  <2>1. loop[n].at = "verify" /\ loop' = [loop EXCEPT ![n] = Confirming(loop[n].from, loop[n].ip)]
    BY <1>10 DEF VerifyFinds
  <2>2. PICK h \in Peers, ip \in Address : loop[n].from = h /\ loop[n].ip = ip
    BY <1>0, <2>1, VerifyingTypes DEF TypeOK
  <2>3. Backed(n, h, ip)
    BY <2>1, <2>2 DEF AddressInv, VerifyBacked, OnOffer
  <2>4. Confirming(h, ip).from = h /\ Confirming(h, ip).ip = ip
    BY DEF Confirming
  <2>5. QED
    BY <1>1, <1>9, <2>1, <2>2, <2>3, <2>4
<1>4. ASSUME NEW n \in Peers, VerifyMisses(n) \/ Confirm(n) \/ Forget(n) PROVE Good
  <2>1. loop' = [loop EXCEPT ![n] = Idle]
    BY <1>4 DEF VerifyMisses, Confirm, Forget
  <2>2. ~OnOffer(Idle)
    BY DEF Idle, OnOffer
  <2>3. QED
    BY <1>2, <2>1, <2>2
<1>11. ASSUME NEW n \in Peers, NEW m \in Peers, LoopJoin(n, m) \/ LoopRequest(n, m) PROVE Good
  <2>1. ~OnOffer(Idle) /\ ~OnOffer(Joining(m))
    BY DEF Idle, Joining, OnOffer
  <2>2. QED
    BY <1>2, <1>11, <2>1 DEF LoopJoin, LoopRequest
<1>5. ASSUME NEW n \in Peers, StartStep(n) \/ Leave(n) \/ Close(n)
      PROVE  UNCHANGED loop
  BY <1>5
  DEF StartStep, Start, RequestBootstrap, AssignHostIP, RecordHostIP, Leave, Close,
      clientVars
<1>6. ASSUME NEW n \in Peers, NEW m \in Peers,
             \/ CheckJoin(n, m) \/ Join(n, m) \/ JoinRequest(n, m) \/ TimerStep(n, m)
             \/ GateStep(n, m) \/ OnRequestIP(n, m) \/ OnAckIP(n, m) \/ OnNackIP(n, m)
             \/ OnDisconnect(n, m)
      PROVE  UNCHANGED loop
  BY <1>6
  DEF CheckJoin, Join, JoinRequest, TimerStep, JoinTimeout, RetryTick, RetrySend, GhostAsk,
      GhostEnds, GateStep, Ask, Accept, Deny, Drop, OnRequestIP, OnAckIP, OnNackIP,
      OnDisconnect, clientVars
<1>7. CASE UNCHANGED vars
  BY <1>7 DEF vars, clientVars
<1>8. QED
  BY <1>1, <1>3, <1>4, <1>5, <1>6, <1>7, <1>10, <1>11 DEF Next, ReadLoopStep, Reopen, Crash

\* Only a confirmed offer, a start and the end of a life change what a node
\* records; and farewells, what it may rely on.
LEMMA RecordSteps ==
  ASSUME TypeOK, [Next]_vars
  PROVE  \/ UNCHANGED << firm, localIP >>
         \/ \E n \in Peers : \E ms \in SUBSET Peers : Farewell(n, ms) /\ UNCHANGED localIP
         \/ \E n \in Peers : RecordHostIP(n) \/ Confirm(n) \/ Forget(n)
<1> DEFINE Kept == UNCHANGED << firm, localIP >>
           Parted == \E n \in Peers : \E ms \in SUBSET Peers : Farewell(n, ms) /\ UNCHANGED localIP
<1>0. peers \in [Peers -> SUBSET Peers]
  BY DEF TypeOK, ClientTypes
<1>1. ASSUME NEW n \in Peers,
             \/ Start(n) \/ RequestBootstrap(n) \/ AssignHostIP(n) \/ Close(n) \/ VerifyFinds(n)
      PROVE  Kept
  BY <1>1
  DEF Start, RequestBootstrap, AssignHostIP, Close, VerifyFinds, clientVars, historyVars,
      farewellVars
<1>2. ASSUME NEW n \in Peers, NEW m \in Peers,
             \/ CheckJoin(n, m) \/ Join(n, m) \/ JoinRequest(n, m)
             \/ LoopJoin(n, m) \/ LoopRequest(n, m) \/ TimerStep(n, m) \/ GateStep(n, m)
             \/ OnAckIP(n, m) \/ OnNackIP(n, m) \/ OnDisconnect(n, m)
      PROVE  Kept
  BY <1>2
  DEF CheckJoin, Join, JoinRequest, LoopJoin, LoopRequest, TimerStep, JoinTimeout, RetryTick,
      RetrySend, GhostAsk, GhostEnds, GateStep, Ask, Accept, Deny, Drop, OnAckIP, OnNackIP,
      OnDisconnect, clientVars, historyVars, farewellVars
<1>3. ASSUME NEW n \in Peers, NEW m \in Peers, OnRequestIP(n, m) \/ OnOfferIP(n, m)
      PROVE  Kept \/ Parted
  <2>1. (Farewell(n, {m}) \/ UNCHANGED firm) /\ UNCHANGED localIP
    BY <1>3 DEF OnRequestIP, OnOfferIP, GiveUpOn, farewellVars
  <2>2. {m} \in SUBSET Peers
    OBVIOUS
  <2>3. QED
    BY <2>1, <2>2
<1>5. ASSUME NEW n \in Peers, VerifyMisses(n) PROVE Parted
  <2>1. loop[n].from \in Peers /\ Farewell(n, {loop[n].from}) /\ UNCHANGED localIP
    BY <1>5, VerifyingTypes DEF VerifyMisses, GiveUpOn, TypeOK
  <2>2. {loop[n].from} \in SUBSET Peers
    BY <2>1
  <2>3. QED
    BY <2>1, <2>2
<1>6. ASSUME NEW n \in Peers, Leave(n) PROVE Parted
  BY <1>0, <1>6 DEF Leave, GiveUpOn, clientVars
<1>4. CASE UNCHANGED vars
  BY <1>4 DEF vars, clientVars, historyVars, farewellVars
<1>7. QED
  BY <1>1, <1>2, <1>3, <1>4, <1>5, <1>6 DEF Next, StartStep, ReadLoopStep, Reopen, Crash

\* What a step records was offered and is still backed.
LEMMA RecordNews ==
  ASSUME AddressInv, LeasesKept, [Next]_vars, NEW k \in Peers
  PROVE  \/ firm'[k] = NoPeer
         \/ /\ firm'[k] = firm[k] /\ localIP'[k] = localIP[k]
            /\ firm[k] \notin spoiled[k] => firm[k] \notin spoiled'[k]
         \/ firm'[k] \notin spoiled'[k] /\ Backed(k, firm[k], localIP[k])'
<1> DEFINE Good == \/ firm'[k] = NoPeer
                   \/ /\ firm'[k] = firm[k] /\ localIP'[k] = localIP[k]
                      /\ firm[k] \notin spoiled[k] => firm[k] \notin spoiled'[k]
                   \/ firm'[k] \notin spoiled'[k] /\ Backed(k, firm[k], localIP[k])'
<1>0. /\ TypeOK /\ ClientTypes
      /\ firm \in [Peers -> Peers \cup {NoPeer}]
      /\ localIP \in [Peers -> Address]
  BY DEF AddressInv, TypeOK, ClientTypes, HistoryTypes
<1>1. ASSUME firm'[k] = NoPeer \/ (firm'[k] = firm[k] /\ localIP'[k] = localIP[k])
      PROVE  Good
  BY <1>0, <1>1, SpoiledIsLetGo
<1>2. ASSUME NEW n \in Peers, RecordHostIP(n) \/ Forget(n) PROVE Good
  <2>1. /\ firm' = [firm EXCEPT ![n] = NoPeer]
        /\ \E ip : localIP' = [localIP EXCEPT ![n] = ip]
    BY <1>2 DEF RecordHostIP, Adopt, Forget
  <2>2. QED
    BY <1>0, <1>1, <2>1
<1>3. ASSUME NEW n \in Peers, Confirm(n) PROVE Good
  <2>1. /\ loop[n].at = "found"
        /\ localIP' = [localIP EXCEPT ![n] = loop[n].ip]
        /\ firm' = [firm EXCEPT ![n] = IF loop[n].from \in spoiled[n] THEN NoPeer
                                                                     ELSE loop[n].from]
        /\ UNCHANGED spoiled
    BY <1>3 DEF Confirm, Adopt
  <2>2. PICK h \in Peers, ip \in Address : loop[n].from = h /\ loop[n].ip = ip
    BY <1>0, <2>1, VerifyingTypes
  <2>3. Backed(n, h, ip)
    BY <2>1, <2>2 DEF AddressInv, VerifyBacked, OnOffer
  <2>4. Backed(n, h, ip)'
    BY <2>1, <2>3, BackedStays DEF Refreshed
  <2>5. CASE k = n /\ h \notin spoiled[n]
    <3>1. firm'[k] = h /\ localIP'[k] = ip
      BY <1>0, <2>1, <2>2, <2>5
    <3>2. QED
      BY <2>1, <2>4, <2>5, <3>1 DEF Backed
  <2>6. CASE k # n \/ h \in spoiled[n]
    BY <1>0, <1>1, <2>1, <2>2, <2>6
  <2>7. QED
    BY <2>5, <2>6
<1>4. ASSUME NEW n \in Peers, NEW ms \in SUBSET Peers, Farewell(n, ms), UNCHANGED localIP
      PROVE  Good
  <2>1. firm' = [firm EXCEPT ![n] = IF firm[n] \in ms THEN NoPeer ELSE firm[n]]
    BY <1>4 DEF Farewell
  <2>2. firm'[k] = NoPeer \/ firm'[k] = firm[k]
    BY <1>0, <2>1
  <2>3. QED
    BY <1>1, <1>4, <2>2
<1>5. CASE UNCHANGED << firm, localIP >>
  BY <1>1, <1>5
<1>6. QED
  BY <1>0, <1>2, <1>3, <1>4, <1>5, RecordSteps

-----------------------------------------------------------------------------
(***************************************************************************)
(* The theorems.                                                           *)
(***************************************************************************)

\* Every step keeps the invariant.
LEMMA AddressStep ==
  ASSUME AddressInv, [Next]_vars
  PROVE  AddressInv'
<1>1. TypeOK' /\ PoolsSound'
  BY TypeStep, PoolsStep DEF AddressInv
<1>2. LeasesKept /\ AfreshIsSound
  BY StepKeepsLeases, RefreshIsSound
<1>3. GoodNews
  BY <1>2, NetworkNews, LoopNews, RecordNews DEF GoodNews
<1>4. QED
  BY <1>1, <1>2, <1>3, NewsIsEnough DEF AddressInv

\* At first nobody offers, verifies or records anything.
LEMMA AddressInit ==
  ASSUME Init
  PROVE  AddressInv
<1>1. \A m, n \in Peers : ToSet(net[<< m, n >>]) = {}
  BY DEF Init, Pairs, ToSet
<1>2. OffersBacked
  BY <1>1 DEF OffersBacked
<1>3. VerifyBacked /\ RecordBacked
  BY DEF Init, VerifyBacked, RecordBacked, Idle, OnOffer
<1>4. PoolsSound
  BY NewPoolSound DEF Init, PoolsSound
<1>5. QED
  BY <1>2, <1>3, <1>4, TypeInit DEF AddressInv

\* The invariant holds of every reachable state.
LEMMA AddressInvariance == Spec => []AddressInv
<1>1. Init => AddressInv
  BY AddressInit
<1>2. AddressInv /\ [Next]_vars => AddressInv'
  BY AddressStep
<1>3. QED
  BY <1>1, <1>2, PTL DEF Spec

\* A node that adopted an offer, which its host made after it had read every
\* NACK and Disconnect of the node, and that has sent the host neither since,
\* holds that address in the host's pool while the host does not restart,
\* whoever else is refused, leaves or crashes and however often it gave up on
\* the host before (client.go l.305-313, 358-382).
THEOREM AddressIsKept == Spec => []AddressKept
<1>1. AddressInv => AddressKept
  <2> SUFFICES ASSUME AddressInv, NEW n \in Peers, NEW h \in Peers, firm[n] = h,
                      restarts[h] = 0
               PROVE  pool[h].leases[n] = localIP[n]
    BY DEF AddressKept
  <2>1. firm[n] # NoPeer
    BY HandshakeAssumption
  <2>2. QED
    BY <2>1 DEF AddressInv, RecordBacked, Backed
<1>2. QED
  BY <1>1, AddressInvariance, PTL

\* Two nodes with such an address of one host have different addresses
\* (client.go, pool.go Allocate).
THEOREM AddressesAreDistinct == Spec => []NoSharedAddress
<1>1. AddressInv => NoSharedAddress
  <2> SUFFICES ASSUME AddressInv, NEW n \in Peers, NEW m \in Peers, n # m,
                      firm[n] # NoPeer, firm[n] = firm[m], restarts[firm[n]] = 0
               PROVE  localIP[n] # localIP[m]
    BY DEF NoSharedAddress
  <2>1. PICK h \in Peers : firm[n] = h
    BY DEF AddressInv, TypeOK, HistoryTypes
  <2>2. /\ pool[h].leases[n] = localIP[n] /\ localIP[n] # NoIP
        /\ pool[h].leases[m] = localIP[m]
    BY <2>1, NoIPApart DEF AddressInv, RecordBacked, Backed
  <2>3. NoDoubleLeaseIn(pool[h])
    BY DEF AddressInv, PoolsSound, PoolSound
  <2>4. QED
    BY <2>2, <2>3 DEF NoDoubleLeaseIn, Holds
<1>2. QED
  BY <1>1, AddressInvariance, PTL

-----------------------------------------------------------------------------
(***************************************************************************)
(* The address a node records and the one on its interface.  They part     *)
(* while an offer is verified, and while a Start has set its own address   *)
(* and not recorded it; an offer in between ends either way.               *)
(***************************************************************************)
Crossed(n) ==
  /\ Bootstrap[n] = NoPeer
  /\ \/ localIP[n] = HostIP /\ devIP[n] \in Addr
     \/ localIP[n] \in Addr /\ devIP[n] = HostIP

Agrees(n) ==
  /\ life[n] = "assigned" => Bootstrap[n] = NoPeer
  /\ IF life[n] = "assigned"
     THEN \/ devIP[n] = HostIP
          \/ devIP[n] \in Addr /\ (OnOffer(loop[n]) => devIP[n] = loop[n].ip)
     ELSE IF OnOffer(loop[n])
     THEN \/ devIP[n] = loop[n].ip
          \/ /\ localIP[n] = devIP[n]
             /\ loop[n].at = "found" => Bootstrap[n] = NoPeer /\ devIP[n] = HostIP
     ELSE localIP[n] = devIP[n] \/ Crossed(n)

RecordsAgree == \A n \in Peers : Agrees(n)

ConfigInv == AddressInv /\ RecordsAgree

SetIPNeverFails == SetIPOutcomes \subseteq {"set"} /\ ~VerifyMayFail

\* Who touches the interface, the record or the verification.
LEMMA ConfigSteps ==
  ASSUME TypeOK, [Next]_vars
  PROVE  \/ /\ UNCHANGED << devIP, localIP >>
            /\ \A n \in Peers : /\ OnOffer(loop[n]) \/ OnOffer(loop'[n]) => loop'[n] = loop[n]
                                /\ life'[n] = "assigned" <=> life[n] = "assigned"
         \/ \E n \in Peers : \/ AssignHostIP(n) \/ RecordHostIP(n)
                             \/ VerifyFinds(n) \/ VerifyMisses(n) \/ Confirm(n) \/ Forget(n)
         \/ \E n, m \in Peers : OnOfferIP(n, m)
<1> DEFINE Kept == /\ UNCHANGED << devIP, localIP >>
                   /\ \A n \in Peers :
                        /\ OnOffer(loop[n]) \/ OnOffer(loop'[n]) => loop'[n] = loop[n]
                        /\ life'[n] = "assigned" <=> life[n] = "assigned"
<1>0. life \in [Peers -> Lives] /\ loop \in [Peers -> LoopStates]
  BY DEF TypeOK, ClientTypes
<1>1. ASSUME NEW n \in Peers, NEW to \in Lives, life[n] # "assigned", to # "assigned",
             life' = [life EXCEPT ![n] = to], UNCHANGED << devIP, loop, localIP >>
      PROVE  Kept
  BY <1>0, <1>1
<1>2. ASSUME NEW n \in Peers, Start(n) \/ RequestBootstrap(n) \/ Leave(n) \/ Close(n)
      PROVE  Kept
  <2>1. UNCHANGED << devIP, loop, localIP >>
    BY <1>2 DEF Start, RequestBootstrap, Leave, Close, clientVars
  <2>2. \E to \in Lives : /\ life[n] # "assigned" /\ to # "assigned"
                          /\ life' = [life EXCEPT ![n] = to]
    BY <1>2 DEF Start, RequestBootstrap, Leave, Close, Lives
  <2>3. QED
    BY <1>1, <2>1, <2>2
<1>3. ASSUME NEW n \in Peers, NEW m \in Peers,
             \/ CheckJoin(n, m) \/ Join(n, m) \/ JoinRequest(n, m) \/ TimerStep(n, m)
             \/ GateStep(n, m)
      PROVE  UNCHANGED << devIP, loop, localIP, life >>
  BY <1>3
  DEF CheckJoin, Join, JoinRequest, TimerStep, JoinTimeout, RetryTick, RetrySend, GhostAsk,
      GhostEnds, GateStep, Ask, Accept, Deny, Drop, clientVars
<1>4. ASSUME NEW n \in Peers, NEW m \in Peers,
             OnRequestIP(n, m) \/ OnAckIP(n, m) \/ OnNackIP(n, m) \/ OnDisconnect(n, m)
      PROVE  UNCHANGED << devIP, loop, localIP, life >>
  BY <1>4 DEF OnRequestIP, OnAckIP, OnNackIP, OnDisconnect, clientVars
<1>7. ASSUME NEW n \in Peers, NEW m \in Peers, LoopJoin(n, m) \/ LoopRequest(n, m)
      PROVE  Kept
  <2>1. ~OnOffer(Idle) /\ ~OnOffer(Joining(m))
    BY DEF Idle, Joining, OnOffer
  <2>2. /\ UNCHANGED << devIP, localIP, life >>
        /\ ~OnOffer(loop[n])
        /\ \E l : ~OnOffer(l) /\ loop' = [loop EXCEPT ![n] = l]
    BY <1>7, <2>1 DEF LoopJoin, LoopRequest
  <2>3. QED
    BY <1>0, <2>2
<1>5. CASE UNCHANGED vars
  BY <1>5 DEF vars, clientVars
<1>6. QED
  BY <1>2, <1>3, <1>4, <1>5, <1>7 DEF Next, StartStep, ReadLoopStep, Reopen, Crash

\* Every step of a node whose SetIP does not fail keeps the agreement.
LEMMA AgreesStep ==
  ASSUME SetIPNeverFails, ConfigInv, [Next]_vars, NEW k \in Peers
  PROVE  Agrees(k)'
<1>0. /\ TypeOK /\ ClientTypes
      /\ life \in [Peers -> Lives]
      /\ devIP \in [Peers -> Address] /\ localIP \in [Peers -> Address]
      /\ loop \in [Peers -> LoopStates]
      /\ Agrees(k)
  BY DEF ConfigInv, RecordsAgree, AddressInv, TypeOK, ClientTypes
<1>00. ~OnOffer(Idle)
  BY DEF OnOffer, Idle
<1>1. CASE /\ UNCHANGED << devIP, localIP >>
           /\ \A n \in Peers : /\ OnOffer(loop[n]) \/ OnOffer(loop'[n]) => loop'[n] = loop[n]
                               /\ life'[n] = "assigned" <=> life[n] = "assigned"
  <2>1. CASE loop'[k] = loop[k]
    BY <1>0, <1>1, <2>1 DEF Agrees, Crossed, OnOffer
  <2>2. CASE ~OnOffer(loop[k]) /\ ~OnOffer(loop'[k])
    BY <1>0, <1>1, <2>2 DEF Agrees, Crossed, OnOffer
  <2>3. QED
    BY <1>1, <2>1, <2>2
<1>2. ASSUME NEW n \in Peers, k # n,
             \/ AssignHostIP(n) \/ RecordHostIP(n)
             \/ VerifyFinds(n) \/ VerifyMisses(n) \/ Confirm(n) \/ Forget(n)
             \/ \E m \in Peers : OnOfferIP(n, m)
      PROVE  Agrees(k)'
  <2>1. devIP'[k] = devIP[k] /\ life'[k] = life[k]
    BY <1>0, <1>2
    DEF AssignHostIP, RecordHostIP, VerifyFinds, VerifyMisses, Confirm, Forget, OnOfferIP
  <2>2. loop'[k] = loop[k]
    BY <1>0, <1>2
    DEF AssignHostIP, RecordHostIP, VerifyFinds, VerifyMisses, Confirm, Forget, OnOfferIP
  <2>3. localIP'[k] = localIP[k]
    BY <1>0, <1>2
    DEF AssignHostIP, RecordHostIP, VerifyFinds, VerifyMisses, Confirm, Forget, OnOfferIP, Adopt
  <2>4. QED
    BY <1>0, <2>1, <2>2, <2>3 DEF Agrees, Crossed, OnOffer
<1>3. CASE AssignHostIP(k)
  <2>1. PICK outc \in SetIPOutcomes :
          /\ devIP' = [devIP EXCEPT ![k] = DeviceAfter(outc, @, HostIP)]
          /\ life' = [life EXCEPT ![k] = IF outc = "set" THEN "assigned" ELSE "on"]
    BY <1>3 DEF AssignHostIP
  <2>2. outc = "set"
    BY DEF SetIPNeverFails
  <2>3. devIP'[k] = HostIP /\ life'[k] = "assigned"
    BY <1>0, <2>1, <2>2 DEF DeviceAfter
  <2>4. Bootstrap[k] = NoPeer
    BY <1>3 DEF AssignHostIP
  <2>5. QED
    BY <2>3, <2>4 DEF Agrees
<1>4. CASE RecordHostIP(k)
  <2>1. /\ life[k] = "assigned" /\ life' = [life EXCEPT ![k] = "on"]
        /\ localIP' = [localIP EXCEPT ![k] = HostIP]
        /\ UNCHANGED << devIP, loop >>
    BY <1>4 DEF RecordHostIP, Adopt
  <2>2. life'[k] = "on" /\ localIP'[k] = HostIP
    BY <1>0, <2>1
  <2>3. QED
    BY <1>0, <2>1, <2>2 DEF Agrees, Crossed, OnOffer
<1>5. CASE VerifyFinds(k)
  <2>1. /\ loop[k].at = "verify" /\ devIP[k] = loop[k].ip
        /\ loop' = [loop EXCEPT ![k] = Confirming(loop[k].from, loop[k].ip)]
        /\ UNCHANGED << devIP, life, localIP >>
    BY <1>5 DEF VerifyFinds
  <2>2. loop'[k].ip = devIP[k]
    BY <1>0, <2>1 DEF Confirming
  <2>3. devIP[k] \in Addr
    BY <2>1 DEF ConfigInv, AddressInv, VerifyBacked, Backed, OnOffer
  <2>4. OnOffer(loop'[k])
    BY <1>0, <2>1 DEF Confirming, OnOffer
  <2>5. QED
    BY <1>0, <2>1, <2>2, <2>3, <2>4 DEF Agrees, OnOffer
<1>10. CASE Confirm(k)
  <2>1. /\ loop[k].at = "found"
        /\ loop' = [loop EXCEPT ![k] = Idle]
        /\ localIP' = [localIP EXCEPT ![k] = loop[k].ip]
        /\ UNCHANGED << devIP, life >>
    BY <1>10 DEF Confirm, Adopt
  <2>2. loop'[k] = Idle /\ localIP'[k] = loop[k].ip
    BY <1>0, <2>1
  <2>3. loop[k].ip \in Addr
    BY <2>1 DEF ConfigInv, AddressInv, VerifyBacked, Backed, OnOffer
  <2>4. ~OnOffer(loop'[k]) /\ OnOffer(loop[k])
    BY <1>00, <2>1, <2>2 DEF OnOffer
  <2>5. QED
    BY <1>0, <2>1, <2>2, <2>3, <2>4 DEF Agrees, Crossed, OnOffer
<1>6. CASE VerifyMisses(k)
  <2>1. /\ loop[k].at = "verify" /\ devIP[k] # loop[k].ip
        /\ loop' = [loop EXCEPT ![k] = Idle]
        /\ UNCHANGED << devIP, life, localIP >>
    BY <1>6 DEF VerifyMisses, SetIPNeverFails
  <2>2. loop'[k] = Idle /\ ~OnOffer(loop'[k]) /\ OnOffer(loop[k])
    BY <1>0, <1>00, <2>1 DEF OnOffer
  <2>3. QED
    BY <1>0, <2>1, <2>2 DEF Agrees, OnOffer
<1>7. CASE Forget(k)
  <2>1. /\ life' = [life EXCEPT ![k] = "off"]
        /\ localIP' = [localIP EXCEPT ![k] = NoIP] /\ devIP' = [devIP EXCEPT ![k] = NoIP]
        /\ loop' = [loop EXCEPT ![k] = Idle]
    BY <1>7 DEF Forget
  <2>2. life'[k] = "off" /\ localIP'[k] = devIP'[k] /\ loop'[k] = Idle
    BY <1>0, <2>1
  <2>3. QED
    BY <1>00, <2>2 DEF Agrees, OnOffer
<1>8. ASSUME NEW m \in Peers, OnOfferIP(k, m) PROVE Agrees(k)'
  <2>1. PICK msg \in Message : msg = Head(net[<< m, k >>]) /\ msg \in ToSet(net[<< m, k >>])
    <3>1. net[<< m, k >>] # << >> /\ net[<< m, k >>] \in Seq(Message)
      BY <1>0, <1>8 DEF OnOfferIP, CanReceive, TypeOK, SteamTypes, Pairs
    <3>2. QED
      BY <3>1, TailElements
  <2>2. msg.act = "offer" /\ msg.ip \in Addr
    <3>1. msg.act = "offer"
      BY <1>8, <2>1 DEF OnOfferIP, CanReceive
    <3>2. QED
      BY <2>1, <3>1 DEF ConfigInv, AddressInv, OffersBacked, GoodMessage, Backed
  <2>3. PICK outc \in SetIPOutcomes :
          /\ devIP' = [devIP EXCEPT ![k] = DeviceAfter(outc, @, msg.ip)]
          /\ outc = "set" => loop' = [loop EXCEPT ![k] = Verifying(m, msg.ip)]
    BY <1>8, <2>1 DEF OnOfferIP
  <2>4. outc = "set"
    BY DEF SetIPNeverFails
  <2>5. devIP'[k] = msg.ip /\ loop'[k].at = "verify" /\ loop'[k].ip = msg.ip
    BY <1>0, <2>3, <2>4 DEF DeviceAfter, Verifying
  <2>6. UNCHANGED life
    BY <1>8 DEF OnOfferIP
  <2>7. QED
    BY <1>0, <2>2, <2>5, <2>6 DEF Agrees, OnOffer
<1>9. QED
  BY <1>0, <1>1, <1>2, <1>3, <1>4, <1>5, <1>6, <1>7, <1>8, <1>10, ConfigSteps

\* Where SetIP and the look at the interface do not fail, a node whose ReadLoop
\* is between two messages, and whose Start is not between setting and
\* recording its own address, records the address its interface has; but for a
\* node without a --peer that took an offer while its Start assigned it its
\* own: that one may end with either of the two on the interface and the other
\* in the record (client.go l.314-355, steambridge_facade.go l.150-162).
THEOREM RecordMatchesInterface ==
  ASSUME SetIPNeverFails PROVE Spec => []RecordedIsConfigured
<1>0. ~OnOffer(Idle)
  BY DEF OnOffer, Idle
<1>1. Init => RecordsAgree
  BY <1>0 DEF Init, RecordsAgree, Agrees
<1>2. AddressInv /\ RecordsAgree /\ [Next]_vars => RecordsAgree'
  BY AgreesStep DEF ConfigInv, RecordsAgree
<1>3. RecordsAgree => RecordedIsConfigured
  BY <1>0 DEF RecordsAgree, Agrees, Crossed, RecordedIsConfigured
<1>4. QED
  BY <1>1, <1>2, <1>3, AddressInvariance, PTL DEF Spec

-----------------------------------------------------------------------------
(***************************************************************************)
(* A guest that leaves keeps no lease behind.  The strengthening says, of  *)
(* every guest n that has told the host h that it leaves, and has not      *)
(* asked it since: every request of n that is still on its way to h, and   *)
(* every lease h has given it, is followed by a Disconnect of n on its way *)
(* to h, unless h itself stops.                                            *)
(***************************************************************************)
Gone(h) == life[h] \in {"leaving", "closed"}

Parts(q) == \E i \in 1 .. Len(q) : q[i].act = "disconnect"

EndsInParting(q) ==
  \A i \in 1 .. Len(q) :
    q[i].act = "request" => \E j \in 1 .. Len(q) : j > i /\ q[j].act = "disconnect"

Closing(n, h) ==
  /\ EndsInParting(net[<< n, h >>])
  /\ Holds(pool[h], n) => Gone(h) \/ Parts(net[<< n, h >>])

LeasesAreClosing == \A n, h \in Peers : h \in told[n] => Closing(n, h)

\* A host hears whoever holds one of its leases.
HoldersAreHeard ==
  \A n, h \in Peers :
    Holds(pool[h], n) => Gone(h) \/ (Running(h) /\ n \in session[h])

\* n asks h, or is about to.
IsAsking(n, h) ==
  \/ h \in pending[n] \cup ghosts[n] \/ sending[<< n, h >>] > 0
  \/ call[<< n, h >>] # "none" \/ loop[n] = Joining(h)

\* A node that refuses strangers asks nobody, so no session is open with a
\* stranger it may still refuse.
RefuserIsQuiet ==
  \A h \in MayDeny :
    /\ \A m \in Peers : ~IsAsking(h, m)
    /\ life[h] # "leaving" =>
         /\ OnOffer(loop[h]) => loop[h].from \in session[h]
         /\ asked[h] \cap session[h] = {}

PartingInv == TypeOK /\ LeasesAreClosing /\ HoldersAreHeard /\ RefuserIsQuiet

\* A node whose user may refuse a stranger asks nobody for an address.
RefusersDoNotAsk ==
  \A n \in MayDeny : MayJoin[n] = {} /\ MayClick[n] = {} /\ Bootstrap[n] = NoPeer

-----------------------------------------------------------------------------
\* A queue that grows.
LEMMA QueueGrows ==
  ASSUME NEW q \in Seq(Message), NEW x \in Message
  PROVE  /\ Parts(Append(q, x)) <=> Parts(q) \/ x.act = "disconnect"
         /\ x.act # "request" /\ EndsInParting(q) => EndsInParting(Append(q, x))
         /\ x.act = "disconnect" => EndsInParting(Append(q, x))
<1> DEFINE a == Append(q, x)
<1>1. /\ Len(q) \in Nat /\ Len(a) = Len(q) + 1
      /\ \A i \in 1 .. Len(q) : a[i] = q[i]
      /\ a[Len(q) + 1] = x
  BY AppendProperties, LenProperties
<1> HIDE DEF a
<1>2. Parts(a) <=> Parts(q) \/ x.act = "disconnect"
  BY <1>1 DEF Parts
<1>3. ASSUME x.act # "request", EndsInParting(q) PROVE EndsInParting(a)
  <2>1. SUFFICES ASSUME NEW i \in 1 .. Len(a), a[i].act = "request"
                 PROVE  \E j \in 1 .. Len(a) : j > i /\ a[j].act = "disconnect"
    BY DEF EndsInParting
  <2>2. i \in 1 .. Len(q) /\ q[i].act = "request"
    BY <1>1, <1>3, <2>1
  <2>3. PICK j \in 1 .. Len(q) : j > i /\ q[j].act = "disconnect"
    BY <1>3, <2>2 DEF EndsInParting
  <2>4. QED
    BY <1>1, <2>3
<1>4. ASSUME x.act = "disconnect" PROVE EndsInParting(a)
  <2>1. SUFFICES ASSUME NEW i \in 1 .. Len(a), a[i].act = "request"
                 PROVE  \E j \in 1 .. Len(a) : j > i /\ a[j].act = "disconnect"
    BY DEF EndsInParting
  <2>2. i # Len(q) + 1
    BY <1>1, <1>4, <2>1
  <2>3. Len(q) + 1 \in 1 .. Len(a) /\ Len(q) + 1 > i /\ a[Len(q) + 1].act = "disconnect"
    BY <1>1, <1>4, <2>2
  <2>4. QED
    BY <2>3
<1>5. QED
  BY <1>2, <1>3, <1>4 DEF a

\* A queue that loses its head.
LEMMA QueueShrinks ==
  ASSUME NEW q \in Seq(Message), q # << >>
  PROVE  /\ Tail(q) \in Seq(Message)
         /\ Parts(Tail(q)) => Parts(q)
         /\ Head(q).act # "disconnect" /\ Parts(q) => Parts(Tail(q))
         /\ EndsInParting(q) => EndsInParting(Tail(q))
         /\ Head(q).act = "request" /\ EndsInParting(q) => Parts(Tail(q))
<1> DEFINE t == Tail(q)
<1>1. /\ t \in Seq(Message)
      /\ Len(q) \in Nat \ {0} /\ Len(t) = Len(q) - 1
      /\ \A i \in 1 .. Len(q) - 1 : t[i] = q[i + 1]
      /\ Head(q) = q[1]
  BY TailElements
<1>2. \A j \in 1 .. Len(q) : j > 1 => j - 1 \in 1 .. Len(t) /\ t[j - 1] = q[j]
  BY <1>1
<1> HIDE DEF t
<1>3. Parts(t) => Parts(q)
  BY <1>1 DEF Parts
<1>4. ASSUME q[1].act # "disconnect", Parts(q) PROVE Parts(t)
  <2>1. PICK j \in 1 .. Len(q) : q[j].act = "disconnect"
    BY <1>4 DEF Parts
  <2>2. j > 1
    BY <1>1, <1>4, <2>1
  <2>3. QED
    BY <1>2, <2>1, <2>2 DEF Parts
<1>5. ASSUME EndsInParting(q) PROVE EndsInParting(t)
  <2>1. SUFFICES ASSUME NEW i \in 1 .. Len(t), t[i].act = "request"
                 PROVE  \E j \in 1 .. Len(t) : j > i /\ t[j].act = "disconnect"
    BY DEF EndsInParting
  <2>2. i + 1 \in 1 .. Len(q) /\ q[i + 1].act = "request"
    BY <1>1, <2>1
  <2>3. PICK j \in 1 .. Len(q) : j > i + 1 /\ q[j].act = "disconnect"
    BY <1>5, <2>2 DEF EndsInParting
  <2>4. j - 1 \in 1 .. Len(t) /\ j - 1 > i /\ t[j - 1].act = "disconnect"
    BY <1>2, <2>3
  <2>5. QED
    BY <2>4
<1>6. ASSUME q[1].act = "request", EndsInParting(q) PROVE Parts(t)
  <2>1. 1 \in 1 .. Len(q)
    BY <1>1
  <2>2. PICK j \in 1 .. Len(q) : j > 1 /\ q[j].act = "disconnect"
    BY <1>6, <2>1 DEF EndsInParting
  <2>3. QED
    BY <1>2, <2>2 DEF Parts
<1>7. QED
  BY <1>1, <1>3, <1>4, <1>5, <1>6 DEF t

LEMMA EmptyQueue == ~Parts(<< >>) /\ EndsInParting(<< >>)
  BY DEF Parts, EndsInParting

\* What the ways to touch the network do to the queue from n to h.
LEMMA QueueEffects ==
  ASSUME SteamTypes, NEW n \in Peers, NEW h \in Peers
  PROVE  /\ net[<< n, h >>] \in Seq(Message)
         /\ \A a, b \in Peers, x \in Message :
              Send(a, b, x) =>
                net'[<< n, h >>] = IF a = n /\ b = h THEN Append(net[<< n, h >>], x)
                                                     ELSE net[<< n, h >>]
         /\ \A a, b \in Peers :
              Take(a, b) =>
                net'[<< n, h >>] = IF b = n /\ a = h THEN Tail(net[<< n, h >>])
                                                     ELSE net[<< n, h >>]
         /\ \A a, b \in Peers, x \in Message :
              TakeAndAnswer(a, b, x) =>
                LET taken == IF b = n /\ a = h THEN Tail(net[<< n, h >>]) ELSE net[<< n, h >>] IN
                net'[<< n, h >>] = IF a = n /\ b = h THEN Append(taken, x) ELSE taken
<1>0. /\ net \in [Pairs -> Seq(Message)]
      /\ \A a, b \in Peers : << a, b >> \in Pairs
  BY DEF SteamTypes, Pairs
<1>1. ASSUME NEW a \in Peers, NEW b \in Peers, NEW x \in Message, Send(a, b, x)
      PROVE  net'[<< n, h >>] = IF a = n /\ b = h THEN Append(net[<< n, h >>], x)
                                                  ELSE net[<< n, h >>]
  BY <1>0, <1>1 DEF Send
<1>2. ASSUME NEW a \in Peers, NEW b \in Peers, Take(a, b)
      PROVE  net'[<< n, h >>] = IF b = n /\ a = h THEN Tail(net[<< n, h >>])
                                                  ELSE net[<< n, h >>]
  BY <1>0, <1>2 DEF Take
<1>3. ASSUME NEW a \in Peers, NEW b \in Peers, NEW x \in Message, TakeAndAnswer(a, b, x)
      PROVE  LET taken == IF b = n /\ a = h THEN Tail(net[<< n, h >>]) ELSE net[<< n, h >>] IN
             net'[<< n, h >>] = IF a = n /\ b = h THEN Append(taken, x) ELSE taken
  BY <1>0, <1>3 DEF TakeAndAnswer
<1>4. QED
  BY <1>0, <1>1, <1>2, <1>3

\* Who asks for an address, and who touches the queue from p to q at its head.
Asks(p, q) ==
  \/ JoinRequest(p, q) \/ LoopRequest(p, q) \/ RetrySend(p, q) \/ GhostAsk(p, q)
  \/ (RequestBootstrap(p) /\ Bootstrap[p] = q)

TakesFrom(q, p) ==
  \/ OnRequestIP(q, p) \/ OnOfferIP(q, p) \/ OnAckIP(q, p) \/ OnNackIP(q, p)
  \/ OnDisconnect(q, p) \/ Drop(q, p) \/ Deny(q, p)

\* The answer to a request is an offer or a refusal.
LEMMA RequestAnswers ==
  ASSUME TypeOK, NEW n \in Peers, NEW m \in Peers, OnRequestIP(n, m)
  PROVE  \E x \in Message : x.act \in {"offer", "nack"} /\ TakeAndAnswer(n, m, x)
<1>. PICK ip : ip = Granted(pool[n], m)
  OBVIOUS
<1>1. ip \in Address
  BY PoolTypes, AddressTypes DEF TypeOK, ClientTypes
<1>2. \/ TakeAndAnswer(n, m, Msg("nack", NoIP))
      \/ TakeAndAnswer(n, m, Msg("offer", ip))
  BY DEF OnRequestIP
<1>3. /\ Msg("nack", NoIP) \in Message /\ Msg("nack", NoIP).act = "nack"
      /\ Msg("offer", ip) \in Message /\ Msg("offer", ip).act = "offer"
  BY <1>1, MessageTypes DEF Msg
<1>4. QED
  BY <1>2, <1>3

\* All else a step does to a queue is to append an answer.
LEMMA QueueSteps ==
  ASSUME TypeOK, [Next]_vars, NEW p \in Peers, NEW q \in Peers,
         ~Asks(p, q), ~Leave(p), ~TakesFrom(q, p)
  PROVE  \/ net'[<< p, q >>] = net[<< p, q >>]
         \/ \E x \in Message : /\ x.act \in {"offer", "ack", "nack"}
                               /\ net'[<< p, q >>] = Append(net[<< p, q >>], x)
<1> DEFINE Good == \/ net'[<< p, q >>] = net[<< p, q >>]
                   \/ \E x \in Message : /\ x.act \in {"offer", "ack", "nack"}
                                         /\ net'[<< p, q >>] = Append(net[<< p, q >>], x)
<1>0. /\ ClientTypes /\ SteamTypes
      /\ net \in [Pairs -> Seq(Message)]
      /\ \A a, b \in Peers : << a, b >> \in Pairs
  BY DEF TypeOK, SteamTypes, Pairs
<1>1. CASE UNCHANGED net
  BY <1>1
<1>2. ASSUME NEW n \in Peers,
             \/ Start(n) \/ AssignHostIP(n) \/ RecordHostIP(n) \/ Close(n) \/ Forget(n)
      PROVE  UNCHANGED net
  BY <1>2 DEF Start, AssignHostIP, RecordHostIP, Close, Forget, steamVars
<1>3. ASSUME NEW n \in Peers, NEW m \in Peers,
             \/ CheckJoin(n, m) \/ Join(n, m) \/ LoopJoin(n, m) \/ JoinTimeout(n, m)
             \/ RetryTick(n, m) \/ GhostEnds(n, m) \/ Ask(n, m) \/ Accept(n, m)
      PROVE  UNCHANGED net
  BY <1>3
  DEF CheckJoin, Join, LoopJoin, JoinTimeout, RetryTick, GhostEnds, Ask, Accept, steamVars
<1>4. ASSUME NEW n \in Peers, NEW m \in Peers, Send(n, m, Msg("request", NoIP)),
             ~(n = p /\ m = q)
      PROVE  Good
  BY <1>0, <1>4, MessageTypes, QueueEffects
<1>5. ASSUME NEW n \in Peers, NEW m \in Peers,
             \/ JoinRequest(n, m) \/ LoopRequest(n, m) \/ RetrySend(n, m) \/ GhostAsk(n, m)
      PROVE  Good
  <2>1. ~(n = p /\ m = q)
    BY <1>5 DEF Asks
  <2>2. QED
    BY <1>1, <1>4, <1>5, <2>1 DEF JoinRequest, LoopRequest, RetrySend, GhostAsk, AskFor
<1>6. ASSUME NEW n \in Peers, RequestBootstrap(n) PROVE Good
  <2>1. Bootstrap[n] \in Peers
    BY <1>6, HandshakeAssumption DEF RequestBootstrap
  <2>2. ~(n = p /\ Bootstrap[n] = q)
    BY <1>6 DEF Asks
  <2>3. QED
    BY <1>1, <1>4, <1>6, <2>1, <2>2 DEF RequestBootstrap, AskFor
<1>7. ASSUME NEW n \in Peers, Leave(n) PROVE Good
  <2>1. n # p
    BY <1>7
  <2>2. net' = [pp \in Pairs |->
                 IF pp[1] = n /\ pp[2] \in peers[n]
                 THEN Append(net[pp], Msg("disconnect", localIP[n])) ELSE net[pp]]
    BY <1>7 DEF Leave
  <2>3. QED
    BY <1>0, <2>1, <2>2
<1>8. ASSUME NEW n \in Peers, Confirm(n) \/ VerifyMisses(n) PROVE Good
  <2>1. loop[n].at = "verify" \/ loop[n].at = "found"
    BY <1>8 DEF Confirm, VerifyMisses
  <2>2. PICK m \in Peers, ip \in Address : loop[n].from = m /\ loop[n].ip = ip
    BY <1>0, <2>1, VerifyingTypes
  <2>3. \E x \in Message : x.act \in {"ack", "nack"} /\ Send(n, m, x)
    <3>1. /\ Msg("ack", ip) \in Message /\ Msg("ack", ip).act = "ack"
          /\ Msg("nack", ip) \in Message /\ Msg("nack", ip).act = "nack"
      BY MessageTypes DEF Msg
    <3>2. Send(n, m, Msg("ack", ip)) \/ Send(n, m, Msg("nack", ip))
      BY <1>8, <2>2 DEF Confirm, VerifyMisses
    <3>3. QED
      BY <3>1, <3>2
  <2>4. PICK x \in Message : x.act \in {"ack", "nack"} /\ Send(n, m, x)
    BY <2>3
  <2>5. net'[<< p, q >>] = IF n = p /\ m = q THEN Append(net[<< p, q >>], x) ELSE net[<< p, q >>]
    BY <1>0, <2>4, QueueEffects
  <2>6. QED
    BY <2>4, <2>5
<1>9. ASSUME NEW n \in Peers, NEW m \in Peers, ~(n = q /\ m = p),
             \/ Take(n, m)
             \/ \E x \in Message : x.act \in {"offer", "nack"} /\ TakeAndAnswer(n, m, x)
      PROVE  Good
  <2>1. CASE Take(n, m)
    <3>1. net'[<< p, q >>] = net[<< p, q >>]
      BY <1>0, <1>9, <2>1, QueueEffects
    <3>2. QED
      BY <3>1
  <2>2. ASSUME NEW x \in Message, x.act \in {"offer", "nack"}, TakeAndAnswer(n, m, x)
        PROVE  Good
    <3>1. net'[<< p, q >>] = IF n = p /\ m = q THEN Append(net[<< p, q >>], x)
                                              ELSE net[<< p, q >>]
      BY <1>0, <1>9, <2>2, QueueEffects
    <3>2. QED
      BY <2>2, <3>1
  <2>3. QED
    BY <1>9, <2>1, <2>2
<1>10. ASSUME NEW n \in Peers, NEW m \in Peers,
              \/ OnOfferIP(n, m) \/ OnAckIP(n, m) \/ OnNackIP(n, m)
              \/ OnDisconnect(n, m) \/ Drop(n, m)
       PROVE  Good
  <2>1. ~(n = q /\ m = p)
    BY <1>10 DEF TakesFrom
  <2>2. Msg("nack", NoIP) \in Message /\ Msg("nack", NoIP).act = "nack"
    BY MessageTypes DEF Msg
  <2>3. Take(n, m) \/ TakeAndAnswer(n, m, Msg("nack", NoIP))
    BY <1>10 DEF OnOfferIP, OnAckIP, OnNackIP, OnDisconnect, Drop
  <2>4. QED
    BY <1>9, <2>1, <2>2, <2>3
<1>11. ASSUME NEW n \in Peers, NEW m \in Peers, OnRequestIP(n, m) PROVE Good
  <2>1. ~(n = q /\ m = p)
    BY <1>11 DEF TakesFrom
  <2>2. \E x \in Message : x.act \in {"offer", "nack"} /\ TakeAndAnswer(n, m, x)
    BY <1>11, RequestAnswers
  <2>3. QED
    BY <1>9, <2>1, <2>2
<1>12. ASSUME NEW n \in Peers, NEW m \in Peers, Deny(n, m) PROVE Good
  <2>1. ~(n = q /\ m = p) /\ net' = [net EXCEPT ![<< m, n >>] = << >>]
    BY <1>12 DEF TakesFrom, Deny
  <2>2. QED
    BY <1>0, <2>1
<1>13. CASE UNCHANGED vars
  BY <1>13 DEF vars, steamVars
<1>14. ASSUME NEW n \in Peers, VerifyFinds(n) PROVE UNCHANGED net
  BY <1>14 DEF VerifyFinds, steamVars
<1>15. QED
  BY <1>1, <1>2, <1>3, <1>5, <1>6, <1>7, <1>8, <1>10, <1>11, <1>12, <1>13, <1>14
  DEF Next, StartStep, ReadLoopStep, TimerStep, GateStep, Reopen, Crash

\* A lease is new only when it is asked for.
LEMMA LeaseSteps ==
  ASSUME TypeOK, [Next]_vars, NEW n \in Peers, NEW h \in Peers, Holds(pool'[h], n)
  PROVE  /\ Holds(pool[h], n) \/ OnRequestIP(h, n)
         /\ ~OnNackIP(h, n) /\ ~OnDisconnect(h, n)
<1>0. /\ pool \in [Peers -> Pool]
      /\ \A a \in Peers : pool[a].leases \in [Peers -> Addr \cup {NoIP}]
  BY PoolParts DEF TypeOK, ClientTypes
<1>1. ASSUME NEW a \in Peers, NEW b \in Peers, pool' = [pool EXCEPT ![a] = AfterRelease(@, b)]
      PROVE  Holds(pool[h], n) /\ ~(a = h /\ b = n)
  <2>1. CASE a = h /\ b = n
    <3>1. pool'[h] = AfterRelease(pool[h], n)
      BY <1>0, <1>1, <2>1
    <3>2. ~Holds(AfterRelease(pool[h], n), n)
      BY <1>0 DEF AfterRelease, Holds
    <3>3. QED
      BY <3>1, <3>2
  <2>2. CASE a = h /\ b # n
    <3>1. pool'[h].leases[n] = pool[h].leases[n]
      BY <1>0, <1>1, <2>2, OtherLeasesKept
    <3>2. QED
      BY <2>2, <3>1 DEF Holds
  <2>3. CASE a # h
    BY <1>0, <1>1, <2>3
  <2>4. QED
    BY <2>1, <2>2, <2>3
<1>2. ASSUME NEW a \in Peers, NEW b \in Peers, OnNackIP(a, b) \/ OnDisconnect(a, b)
      PROVE  Holds(pool[h], n) /\ ~(a = h /\ b = n)
  BY <1>1, <1>2 DEF OnNackIP, OnDisconnect
<1>3. ASSUME NEW a \in Peers, NEW b \in Peers, OnRequestIP(a, b)
      PROVE  Holds(pool[h], n) \/ OnRequestIP(h, n)
  <2>1. pool' = [pool EXCEPT ![a] = AfterAllocate(@, b)]
    BY <1>3 DEF OnRequestIP
  <2>2. CASE a = h /\ b # n
    <3>1. AfterAllocate(pool[h], b).leases[n] = pool[h].leases[n]
      <4>1. CASE Holds(pool[h], b)
        BY <4>1 DEF AfterAllocate
      <4>2. CASE ~Holds(pool[h], b)
        <5>1. AfterAllocate(pool[h], b).leases = [pool[h].leases EXCEPT ![b] = Granted(pool[h], b)]
          BY <4>2 DEF AfterAllocate
        <5>2. QED
          BY <1>0, <2>2, <5>1
      <4>3. QED
        BY <4>1, <4>2
    <3>2. pool'[h] = AfterAllocate(pool[h], b)
      BY <1>0, <2>1, <2>2
    <3>3. QED
      BY <3>1, <3>2 DEF Holds
  <2>3. CASE a # h
    BY <1>0, <2>1, <2>3
  <2>4. QED
    BY <1>3, <2>2, <2>3
<1>4. ASSUME NEW a \in Peers, Forget(a) PROVE Holds(pool[h], n)
  <2>1. pool' = [pool EXCEPT ![a] = NewPool]
    BY <1>4 DEF Forget
  <2>2. ~Holds(NewPool, n)
    BY DEF NewPool, Holds
  <2>3. QED
    BY <1>0, <2>1, <2>2
<1>5. QED
  BY <1>2, <1>3, <1>4, PoolSteps

-----------------------------------------------------------------------------
\* A life goes on unless its node stops or crashes.
LEMMA LifeSteps ==
  ASSUME TypeOK, [Next]_vars, NEW n \in Peers,
         ~Leave(n), ~Close(n), ~Forget(n)
  PROVE  \/ life'[n] = life[n]
         \/ life[n] = "off" /\ life'[n] = "starting"
         \/ life[n] \in {"starting", "assigned"} /\ life'[n] \in {"assigned", "on"}
<1> DEFINE Goes == \/ life'[n] = life[n]
                   \/ life[n] = "off" /\ life'[n] = "starting"
                   \/ life[n] \in {"starting", "assigned"} /\ life'[n] \in {"assigned", "on"}
<1>0. life \in [Peers -> Lives]
  BY DEF TypeOK
<1>1. UNCHANGED life => Goes
  OBVIOUS
<1>2. ASSUME NEW k \in Peers, Leave(k) \/ Close(k) \/ Forget(k) PROVE Goes
  <2>1. k # n
    BY <1>2
  <2>2. \E v : life' = [life EXCEPT ![k] = v]
    BY <1>2 DEF Leave, Close, Forget
  <2>3. QED
    BY <1>0, <2>1, <2>2
<1>3. ASSUME NEW k \in Peers, StartStep(k) PROVE Goes
  <2>1. \/ life[k] = "off" /\ life' = [life EXCEPT ![k] = "starting"]
        \/ life[k] \in {"starting", "assigned"}
           /\ \E to \in {"assigned", "on"} : life' = [life EXCEPT ![k] = to]
    BY <1>3 DEF StartStep, Start, RequestBootstrap, AssignHostIP, RecordHostIP
  <2>2. QED
    BY <1>0, <2>1
<1>4. ASSUME NEW k \in Peers, VerifyFinds(k) \/ Confirm(k) \/ VerifyMisses(k)
      PROVE  UNCHANGED life
  BY <1>4 DEF VerifyFinds, Confirm, VerifyMisses
<1>5. ASSUME NEW k \in Peers, NEW m \in Peers,
             \/ CheckJoin(k, m) \/ Join(k, m) \/ JoinRequest(k, m) \/ LoopJoin(k, m)
             \/ LoopRequest(k, m) \/ TimerStep(k, m) \/ GateStep(k, m)
      PROVE  UNCHANGED life
  BY <1>5
  DEF CheckJoin, Join, JoinRequest, LoopJoin, LoopRequest, TimerStep, JoinTimeout, RetryTick,
      RetrySend, GhostAsk, GhostEnds, GateStep, Ask, Accept, Deny, Drop
<1>6. ASSUME NEW k \in Peers, NEW m \in Peers,
             \/ OnRequestIP(k, m) \/ OnOfferIP(k, m) \/ OnAckIP(k, m)
             \/ OnNackIP(k, m) \/ OnDisconnect(k, m)
      PROVE  UNCHANGED life
  BY <1>6 DEF OnRequestIP, OnOfferIP, OnAckIP, OnNackIP, OnDisconnect
<1>7. ASSUME UNCHANGED vars PROVE UNCHANGED life
  BY <1>7 DEF vars
<1> HIDE DEF Goes
<1>8. Goes
  BY <1>1, <1>2, <1>3, <1>4, <1>5, <1>6, <1>7 DEF Next, ReadLoopStep, Reopen, Crash
<1>9. QED
  BY <1>8 DEF Goes

\* Who stops has stopped until its next life.
LEMMA GoneStays ==
  ASSUME TypeOK, [Next]_vars, NEW h \in Peers, Gone(h), ~Forget(h)
  PROVE  Gone(h)'
<1>0. life \in [Peers -> Lives]
  BY DEF TypeOK
<1>1. CASE Leave(h) \/ Close(h)
  <2>1. life' = [life EXCEPT ![h] = "leaving"] \/ life' = [life EXCEPT ![h] = "closed"]
    BY <1>1 DEF Leave, Close
  <2>2. QED
    BY <1>0, <2>1 DEF Gone
<1>2. CASE ~Leave(h) /\ ~Close(h)
  BY <1>2, LifeSteps DEF Gone
<1>3. QED
  BY <1>1, <1>2

\* A node that begins to tell h that it leaves does so by its Stop; and h is
\* told no more once it is asked.
LEMMA ToldSteps ==
  ASSUME TypeOK, [Next]_vars, NEW n \in Peers, NEW h \in Peers
  PROVE  /\ h \in told'[n] => h \in told[n] \/ (Leave(n) /\ h \in peers[n])
         /\ Asks(n, h) => UNCHANGED net \/ h \notin told'[n]
<1>0. told \in [Peers -> SUBSET Peers] /\ peers \in [Peers -> SUBSET Peers]
  BY DEF TypeOK, ClientTypes, HistoryTypes
<1> DEFINE Good == h \in told'[n] => h \in told[n] \/ (Leave(n) /\ h \in peers[n])
<1>1. UNCHANGED told => Good
  OBVIOUS
<1>2. ASSUME NEW a \in Peers, NEW b, AskFor(a, b)
      PROVE  Good /\ (a = n /\ b = h => UNCHANGED net \/ h \notin told'[n])
  BY <1>0, <1>2 DEF AskFor
<1>3. ASSUME NEW a \in Peers, NEW b \in Peers,
             \/ JoinRequest(a, b) \/ LoopRequest(a, b) \/ RetrySend(a, b) \/ GhostAsk(a, b)
      PROVE  AskFor(a, b)
  BY <1>3 DEF JoinRequest, LoopRequest, RetrySend, GhostAsk
<1>4. ASSUME NEW a \in Peers, RequestBootstrap(a) PROVE AskFor(a, Bootstrap[a])
  BY <1>4 DEF RequestBootstrap
<1>5. ASSUME NEW a \in Peers, Leave(a) PROVE Good
  <2>1. told' = [told EXCEPT ![a] = @ \cup peers[a]]
    BY <1>5 DEF Leave
  <2>2. QED
    BY <1>0, <1>5, <2>1
<1>6. ASSUME NEW a \in Peers,
             \/ Start(a) \/ AssignHostIP(a) \/ RecordHostIP(a) \/ Close(a) \/ Forget(a)
             \/ VerifyFinds(a) \/ Confirm(a) \/ VerifyMisses(a)
      PROVE  UNCHANGED told
  BY <1>6
  DEF Start, AssignHostIP, RecordHostIP, Close, Forget, VerifyFinds, Confirm, VerifyMisses,
      historyVars
<1>7. ASSUME NEW a \in Peers, NEW b \in Peers,
             \/ CheckJoin(a, b) \/ Join(a, b) \/ LoopJoin(a, b) \/ GateStep(a, b)
             \/ JoinTimeout(a, b) \/ RetryTick(a, b) \/ GhostEnds(a, b)
      PROVE  UNCHANGED told
  BY <1>7
  DEF CheckJoin, Join, LoopJoin, GateStep, Ask, Accept, Deny, Drop, JoinTimeout, RetryTick,
      GhostEnds, historyVars
<1>8. ASSUME NEW a \in Peers, NEW b \in Peers,
             \/ OnRequestIP(a, b) \/ OnOfferIP(a, b) \/ OnAckIP(a, b)
             \/ OnNackIP(a, b) \/ OnDisconnect(a, b)
      PROVE  UNCHANGED told
  BY <1>8 DEF OnRequestIP, OnOfferIP, OnAckIP, OnNackIP, OnDisconnect, historyVars
<1>9. ASSUME UNCHANGED vars PROVE UNCHANGED told
  BY <1>9 DEF vars, historyVars
<1>10. Asks(n, h) => UNCHANGED net \/ h \notin told'[n]
  BY <1>2, <1>3, <1>4 DEF Asks
<1> HIDE DEF Good
<1>11. Good
  BY <1>1, <1>2, <1>3, <1>4, <1>5, <1>6, <1>7, <1>8, <1>9
  DEF Next, StartStep, ReadLoopStep, TimerStep, Reopen, Crash
<1>12. QED
  BY <1>10, <1>11 DEF Good

-----------------------------------------------------------------------------
\* What a handler, or a drop, leaves of the queue it takes from.
LEMMA TakingEffects ==
  ASSUME TypeOK, NEW n \in Peers, NEW h \in Peers, TakesFrom(h, n), ~Deny(h, n)
  PROVE  LET q == net[<< n, h >>]  q2 == net'[<< n, h >>] IN
         /\ q # << >>
         /\ Parts(q2) => Parts(q)
         /\ Parts(q) /\ Head(q).act # "disconnect" => Parts(q2)
         /\ EndsInParting(q) => EndsInParting(q2)
         /\ EndsInParting(q) /\ Head(q).act = "request" => Parts(q2)
<1>. PICK q : q = net[<< n, h >>]
  OBVIOUS
<1>0. q \in Seq(Message) /\ SteamTypes
  BY QueueEffects DEF TypeOK
<1>1. q # << >>
  BY DEF TakesFrom, OnRequestIP, OnOfferIP, OnAckIP, OnNackIP, OnDisconnect, CanReceive, Drop
<1>2. \/ Take(h, n)
      \/ \E x \in Message : x.act \in {"offer", "nack"} /\ TakeAndAnswer(h, n, x)
  <2>1. CASE OnRequestIP(h, n)
    BY <2>1, RequestAnswers
  <2>2. CASE ~OnRequestIP(h, n)
    <3>1. Take(h, n) \/ TakeAndAnswer(h, n, Msg("nack", NoIP))
      BY <2>2 DEF TakesFrom, OnOfferIP, OnAckIP, OnNackIP, OnDisconnect, Drop
    <3>2. Msg("nack", NoIP) \in Message /\ Msg("nack", NoIP).act = "nack"
      BY MessageTypes DEF Msg
    <3>3. QED
      BY <3>1, <3>2
  <2>3. QED
    BY <2>1, <2>2
<1>3. /\ Tail(q) \in Seq(Message)
      /\ Parts(Tail(q)) => Parts(q)
      /\ Head(q).act # "disconnect" /\ Parts(q) => Parts(Tail(q))
      /\ EndsInParting(q) => EndsInParting(Tail(q))
      /\ Head(q).act = "request" /\ EndsInParting(q) => Parts(Tail(q))
  BY <1>0, <1>1, QueueShrinks
<1>4. \/ net'[<< n, h >>] = Tail(q)
      \/ \E x \in Message : /\ x.act \in {"offer", "nack"}
                            /\ net'[<< n, h >>] = Append(Tail(q), x)
  <2>1. CASE Take(h, n)
    <3>1. net'[<< n, h >>] = Tail(q)
      BY <1>0, <2>1, QueueEffects
    <3>2. QED
      BY <3>1
  <2>2. ASSUME NEW x \in Message, x.act \in {"offer", "nack"}, TakeAndAnswer(h, n, x)
        PROVE  net'[<< n, h >>] = IF h = n THEN Append(Tail(q), x) ELSE Tail(q)
    BY <1>0, <2>2, QueueEffects
  <2>3. QED
    BY <1>2, <2>1, <2>2
<1>5. /\ Parts(net'[<< n, h >>]) <=> Parts(Tail(q))
      /\ EndsInParting(Tail(q)) => EndsInParting(net'[<< n, h >>])
  <2>1. CASE net'[<< n, h >>] = Tail(q)
    BY <2>1
  <2>2. ASSUME NEW x \in Message, x.act \in {"offer", "nack"},
               net'[<< n, h >>] = Append(Tail(q), x)
        PROVE  /\ Parts(net'[<< n, h >>]) <=> Parts(Tail(q))
               /\ EndsInParting(Tail(q)) => EndsInParting(net'[<< n, h >>])
    <3>. PICK t : t = Tail(q)
      OBVIOUS
    <3>1. t \in Seq(Message) /\ x.act # "request" /\ x.act # "disconnect"
      BY <1>3, <2>2
    <3>2. /\ Parts(Append(t, x)) <=> Parts(t) \/ x.act = "disconnect"
          /\ x.act # "request" /\ EndsInParting(t) => EndsInParting(Append(t, x))
      BY <3>1, QueueGrows
    <3>3. QED
      BY <2>2, <3>1, <3>2
  <2>3. QED
    BY <1>4, <2>1, <2>2
<1>6. QED
  BY <1>1, <1>3, <1>5

\* The Disconnects of a Stop.
LEMMA LeaveEffects ==
  ASSUME TypeOK, NEW n \in Peers, NEW h \in Peers, Leave(n)
  PROVE  LET q == net[<< n, h >>]  q2 == net'[<< n, h >>] IN
         /\ h \notin peers[n] => q2 = q
         /\ h \in peers[n] => Parts(q2) /\ EndsInParting(q2)
<1>0. /\ SteamTypes /\ localIP[n] \in Address /\ << n, h >> \in Pairs
  BY DEF TypeOK, ClientTypes, Pairs
<1>1. net' = [p \in Pairs |->
               IF p[1] = n /\ p[2] \in peers[n]
               THEN Append(net[p], Msg("disconnect", localIP[n])) ELSE net[p]]
  BY DEF Leave
<1>2. net'[<< n, h >>] = IF h \in peers[n] THEN Append(net[<< n, h >>], Msg("disconnect", localIP[n]))
                                          ELSE net[<< n, h >>]
  BY <1>0, <1>1
<1>3. /\ net[<< n, h >>] \in Seq(Message)
      /\ Msg("disconnect", localIP[n]) \in Message
      /\ Msg("disconnect", localIP[n]).act = "disconnect"
  BY <1>0, QueueEffects, MessageTypes DEF Msg
<1>4. QED
  BY <1>2, <1>3, QueueGrows

\* A lease of a guest that left is being closed.
LEMMA ClosingStep ==
  ASSUME PartingInv, [Next]_vars, NEW n \in Peers, NEW h \in Peers, h \in told'[n]
  PROVE  Closing(n, h)'
<1>. PICK q, q2 : q = net[<< n, h >>] /\ q2 = net'[<< n, h >>]
  OBVIOUS
<1>0. TypeOK /\ q \in Seq(Message)
  BY QueueEffects DEF PartingInv, TypeOK
<1>1. SUFFICES EndsInParting(q2) /\ (Holds(pool'[h], n) => Gone(h)' \/ Parts(q2))
  BY DEF Closing
<1>2. CASE Leave(n) /\ h \in peers[n]
  BY <1>0, <1>2, LeaveEffects
<1>3. CASE ~(Leave(n) /\ h \in peers[n])
  <2>1. EndsInParting(q) /\ (Holds(pool[h], n) => Gone(h) \/ Parts(q))
    BY <1>0, <1>3, ToldSteps DEF PartingInv, LeasesAreClosing, Closing
  <2>2. Holds(pool'[h], n) => /\ Holds(pool[h], n) \/ OnRequestIP(h, n)
                              /\ ~OnNackIP(h, n) /\ ~OnDisconnect(h, n)
    BY <1>0, LeaseSteps
  <2>3. Holds(pool'[h], n) /\ Gone(h) => Gone(h)'
    <3>1. ASSUME Forget(h) PROVE ~Holds(pool'[h], n)
      BY <1>0, <3>1 DEF Forget, Holds, NewPool, TypeOK, ClientTypes
    <3>2. QED
      BY <1>0, <3>1, GoneStays
  <2>4. CASE ~TakesFrom(h, n)
    <3>1. Holds(pool'[h], n) => Holds(pool[h], n)
      BY <2>2, <2>4 DEF TakesFrom
    <3>2. CASE q2 = q
      BY <2>1, <2>3, <3>1, <3>2
    <3>3. ASSUME NEW x \in Message, x.act \in {"offer", "ack", "nack"}, q2 = Append(q, x)
          PROVE  EndsInParting(q2) /\ (Parts(q) => Parts(q2))
      BY <1>0, <2>1, <3>3, QueueGrows
    <3>4. CASE Leave(n)
      BY <1>0, <1>3, <3>2, <3>4, LeaveEffects
    <3>5. CASE Asks(n, h)
      BY <1>0, <3>2, <3>5, ToldSteps
    <3>6. CASE ~Leave(n) /\ ~Asks(n, h)
      <4>1. \/ q2 = q
            \/ \E x \in Message : x.act \in {"offer", "ack", "nack"} /\ q2 = Append(q, x)
        BY <1>0, <2>4, <3>6, QueueSteps
      <4>2. QED
        BY <2>1, <2>3, <3>1, <3>2, <3>3, <4>1
    <3>7. QED
      BY <3>4, <3>5, <3>6
  <2>5. CASE Deny(h, n)
    <3>1. q2 = << >> /\ pool' = pool
      BY <1>0, <2>5 DEF Deny, clientVars, TypeOK, SteamTypes, Pairs
    <3>2. Gone(h) \/ n \notin session[h]
      BY <2>5 DEF PartingInv, RefuserIsQuiet, Deny, Gone
    <3>3. Holds(pool[h], n) => Gone(h)
      BY <3>2 DEF PartingInv, HoldersAreHeard
    <3>4. QED
      BY <2>3, <3>1, <3>3, EmptyQueue
  <2>6. CASE TakesFrom(h, n) /\ ~Deny(h, n)
    <3>1. /\ Parts(q) /\ Head(q).act # "disconnect" => Parts(q2)
          /\ EndsInParting(q2)
          /\ Head(q).act = "request" => Parts(q2)
      BY <1>0, <2>1, <2>6, TakingEffects
    <3>2. CASE OnRequestIP(h, n)
      BY <3>1, <3>2 DEF OnRequestIP, CanReceive
    <3>3. CASE OnNackIP(h, n) \/ OnDisconnect(h, n)
      BY <2>2, <3>1, <3>3
    <3>4. CASE OnOfferIP(h, n) \/ OnAckIP(h, n)
      <4>1. Head(q).act \in {"offer", "ack"} /\ pool' = pool
        BY <3>4 DEF OnOfferIP, OnAckIP, CanReceive, clientVars
      <4>2. QED
        BY <2>1, <2>3, <3>1, <4>1
    <3>5. CASE Drop(h, n)
      <4>1. pool' = pool /\ (~Running(h) \/ n \notin session[h])
        BY <3>5 DEF Drop, clientVars
      <4>2. Holds(pool[h], n) => Gone(h)
        BY <4>1 DEF PartingInv, HoldersAreHeard
      <4>3. QED
        BY <2>3, <3>1, <4>1, <4>2
    <3>6. QED
      BY <2>6, <3>2, <3>3, <3>4, <3>5 DEF TakesFrom
  <2>7. QED
    BY <2>4, <2>5, <2>6
<1>4. QED
  BY <1>2, <1>3

-----------------------------------------------------------------------------
\* What a step may do to a ReadLoop: end what it does, begin to join or to
\* handle an offer, or go on from the look to the acknowledgement.
LEMMA LoopSteps ==
  ASSUME TypeOK, [Next]_vars, NEW h \in Peers
  PROVE  \/ loop'[h] = loop[h] /\ ~Close(h) /\ ~Forget(h)
         \/ loop'[h] = Idle
         \/ \E m \in Peers : LoopJoin(h, m) /\ loop'[h] = Joining(m)
         \/ \E m \in Peers : OnOfferIP(h, m) /\ \E ip \in Address : loop'[h] = Verifying(m, ip)
         \/ VerifyFinds(h) /\ loop'[h] = Confirming(loop[h].from, loop[h].ip)
<1> DEFINE Goal ==
             \/ loop'[h] = loop[h] /\ ~Close(h) /\ ~Forget(h)
             \/ loop'[h] = Idle
             \/ \E m \in Peers : LoopJoin(h, m) /\ loop'[h] = Joining(m)
             \/ \E m \in Peers : OnOfferIP(h, m) /\ \E ip \in Address : loop'[h] = Verifying(m, ip)
             \/ VerifyFinds(h) /\ loop'[h] = Confirming(loop[h].from, loop[h].ip)
<1>0. loop \in [Peers -> LoopStates] /\ SteamTypes
  BY DEF TypeOK, ClientTypes
<1>1. loop'[h] = loop[h] => Goal
  BY <1>0 DEF Close, Forget, clientVars
<1>2. ASSUME NEW a \in Peers, NEW v, loop' = [loop EXCEPT ![a] = v]
      PROVE  loop'[h] = IF a = h THEN v ELSE loop[h]
  BY <1>0, <1>2
<1>3. ASSUME NEW a \in Peers, NEW b \in Peers,
             \/ LoopRequest(a, b) \/ Confirm(a) \/ VerifyMisses(a) \/ Forget(a)
      PROVE  loop'[h] = Idle \/ loop'[h] = loop[h]
  BY <1>2, <1>3 DEF LoopRequest, Confirm, VerifyMisses, Forget
<1>4. ASSUME NEW a \in Peers, NEW b \in Peers, LoopJoin(a, b) PROVE Goal
  BY <1>1, <1>2, <1>4 DEF LoopJoin
<1>5. ASSUME NEW a \in Peers, VerifyFinds(a) PROVE Goal
  BY <1>1, <1>2, <1>5 DEF VerifyFinds
<1>6. ASSUME NEW a \in Peers, NEW b \in Peers, OnOfferIP(a, b) PROVE Goal
  <2>1. PICK ip \in Address : \/ UNCHANGED loop
                              \/ loop' = [loop EXCEPT ![a] = Verifying(b, ip)]
    <3>1. Head(net[<< b, a >>]).ip \in Address
      <4>1. net[<< b, a >>] \in Seq(Message) /\ net[<< b, a >>] # << >>
        BY <1>0, <1>6, QueueEffects DEF OnOfferIP, CanReceive
      <4>2. Head(net[<< b, a >>]) \in Message
        BY <4>1, TailElements
      <4>3. QED
        BY <4>2 DEF Message
    <3>2. \/ UNCHANGED loop
          \/ loop' = [loop EXCEPT ![a] = Verifying(b, Head(net[<< b, a >>]).ip)]
      BY <1>6 DEF OnOfferIP
    <3>3. QED
      BY <3>1, <3>2
  <2>2. QED
    BY <1>1, <1>2, <1>6, <2>1
<1>7. ASSUME NEW a \in Peers, StartStep(a) \/ Leave(a) \/ Close(a) PROVE UNCHANGED loop
  BY <1>7
  DEF StartStep, Start, RequestBootstrap, AssignHostIP, RecordHostIP, Leave, Close, clientVars
<1>8. ASSUME NEW a \in Peers, NEW b \in Peers,
             \/ CheckJoin(a, b) \/ Join(a, b) \/ JoinRequest(a, b) \/ TimerStep(a, b)
             \/ GateStep(a, b)
      PROVE  UNCHANGED loop
  BY <1>8
  DEF CheckJoin, Join, JoinRequest, TimerStep, JoinTimeout, RetryTick, RetrySend, GhostAsk,
      GhostEnds, GateStep, Ask, Accept, Deny, Drop, clientVars
<1>9. ASSUME NEW a \in Peers, NEW b \in Peers,
             OnRequestIP(a, b) \/ OnAckIP(a, b) \/ OnNackIP(a, b) \/ OnDisconnect(a, b)
      PROVE  UNCHANGED loop
  BY <1>9 DEF OnRequestIP, OnAckIP, OnNackIP, OnDisconnect, clientVars
<1>10. ASSUME UNCHANGED vars PROVE UNCHANGED loop
  BY <1>10 DEF vars, clientVars
<1>11. loop'[h] = Idle => Goal
  OBVIOUS
<1> HIDE DEF Goal
<1>12. Goal
  BY <1>1, <1>3, <1>4, <1>5, <1>6, <1>7, <1>8, <1>9, <1>10, <1>11
  DEF Next, ReadLoopStep, Reopen, Crash
<1>13. QED
  BY <1>12 DEF Goal

\* A node asks only whom it asked before, but for a new Join.
LEMMA AskingSteps ==
  ASSUME TypeOK, [Next]_vars, NEW n \in Peers, NEW h \in Peers, IsAsking(n, h)'
  PROVE  IsAsking(n, h) \/ CheckJoin(n, h) \/ LoopJoin(n, h)
<1> DEFINE Attempt == \/ h \in pending[n]
                      \/ sending[<< n, h >>] > 0 \/ call[<< n, h >>] # "none"
<1>0. /\ pending \in [Peers -> SUBSET Peers] /\ ghosts \in [Peers -> SUBSET Peers]
      /\ sending \in [Pairs -> Nat] /\ call \in [Pairs -> {"none", "checked", "request"}]
      /\ \A a, b \in Peers : << a, b >> \in Pairs
  BY DEF TypeOK, ClientTypes, TimerTypes, Pairs
<1> DEFINE Before == IsAsking(n, h) \/ CheckJoin(n, h) \/ LoopJoin(n, h)
<1>1. Attempt' => Before
  <2>0. Attempt => Before
    BY DEF IsAsking
  <2>1. CASE UNCHANGED << pending, attemptVars >>
    BY <2>0, <2>1 DEF attemptVars
  <2>2. ASSUME NEW a \in Peers, NEW b \in Peers,
               Resolve(a, b, TRUE) \/ Resolve(a, b, FALSE), UNCHANGED attemptVars
        PROVE  Attempt' => Attempt
    <3>1. pending' = [pending EXCEPT ![a] = @ \ {b}] \/ pending' = pending
      BY <2>2 DEF Resolve
    <3>2. QED
      BY <1>0, <2>2, <3>1 DEF attemptVars
  <2>3. ASSUME NEW a \in Peers, NEW b \in Peers, Join(a, b)
        PROVE  Attempt' => Attempt
    <3>1. /\ pending' = [pending EXCEPT ![a] = @ \cup {b}]
          /\ call[<< a, b >>] # "none"
          /\ call' = [call EXCEPT ![<< a, b >>] = "request"]
          /\ UNCHANGED sending
      BY <2>3 DEF Join, Register
    <3>2. CASE a = n /\ b = h
      BY <3>1, <3>2
    <3>3. CASE ~(a = n /\ b = h)
      BY <1>0, <3>1, <3>3
    <3>4. QED
      BY <3>2, <3>3
  <2>4. ASSUME NEW a \in Peers, NEW b \in Peers, JoinRequest(a, b) \/ CheckJoin(a, b)
        PROVE  Attempt' => Attempt \/ CheckJoin(n, h)
    <3>1. CASE a = n /\ b = h
      BY <1>0, <2>4, <3>1 DEF JoinRequest, CheckJoin, clientVars
    <3>2. CASE ~(a = n /\ b = h)
      BY <1>0, <2>4, <3>2 DEF JoinRequest, CheckJoin, clientVars
    <3>3. QED
      BY <3>1, <3>2
  <2>5. ASSUME NEW a \in Peers, NEW b \in Peers, LoopJoin(a, b) \/ LoopRequest(a, b)
        PROVE  Attempt' => Attempt \/ LoopJoin(n, h)
    <3>1. /\ UNCHANGED << sending, call >>
          /\ \/ UNCHANGED pending
             \/ LoopJoin(a, b) /\ pending' = [pending EXCEPT ![a] = @ \cup {b}]
      BY <2>5 DEF LoopJoin, LoopRequest, Register, timerVars, attemptVars
    <3>2. QED
      BY <1>0, <3>1
  <2>6. ASSUME NEW a \in Peers, NEW b \in Peers, JoinTimeout(a, b)
        PROVE  Attempt' => Attempt
    <3>1. pending' = [pending EXCEPT ![a] = @ \ {b}] \/ pending' = pending
      BY <2>6 DEF JoinTimeout, Resolve
    <3>2. QED
      BY <1>0, <2>6, <3>1 DEF JoinTimeout
  <2>7. ASSUME NEW a \in Peers, NEW b \in Peers, RetryTick(a, b)
        PROVE  Attempt' => Attempt
    BY <1>0, <2>7 DEF RetryTick, clientVars
  <2>8. ASSUME NEW a \in Peers, NEW b \in Peers, RetrySend(a, b)
        PROVE  Attempt' => Attempt
    BY <1>0, <2>8 DEF RetrySend, clientVars
  <2>9. ASSUME NEW a \in Peers, Reopen(a) \/ Crash(a)
        PROVE  Attempt' => Attempt
    <3>1. /\ pending' = [pending EXCEPT ![a] = {}]
          /\ sending' = Reset(sending, a, 0)
          /\ \/ call' = [p \in Pairs |-> IF p[1] = a /\ call[p] # "checked" THEN "none"
                                                                          ELSE call[p]]
             \/ call' = Reset(call, a, "none")
      BY <2>9 DEF Reopen, Crash, Forget
    <3>2. QED
      BY <1>0, <3>1 DEF Reset
  <2> HIDE DEF Attempt
  <2>10. QED
    BY <2>0, <2>1, <2>2, <2>3, <2>4, <2>5, <2>6, <2>7, <2>8, <2>9, AnswerSteps
<1>2. h \in ghosts'[n] => IsAsking(n, h)
  <2>1. CASE UNCHANGED ghosts
    BY <2>1 DEF IsAsking
  <2>2. ASSUME NEW a \in Peers, NEW b \in Peers, GhostEnds(a, b)
        PROVE  h \in ghosts'[n] => h \in ghosts[n]
    BY <1>0, <2>2 DEF GhostEnds
  <2>3. ASSUME NEW a \in Peers, Reopen(a)
        PROVE  h \in ghosts'[n] => IsAsking(n, h)
    <3>1. ghosts' = [ghosts EXCEPT ![a] = Unanswered(a)]
      BY <2>3 DEF Reopen
    <3>2. CASE a = n
      <4>1. h \in ghosts'[n] => h \in Unanswered(n)
        BY <1>0, <3>1, <3>2
      <4>2. h \in Unanswered(n) => IsAsking(n, h)
        BY DEF Unanswered, IsAsking
      <4>3. QED
        BY <4>1, <4>2
    <3>3. CASE a # n
      BY <1>0, <3>1, <3>3 DEF IsAsking
    <3>4. QED
      BY <3>2, <3>3
  <2>4. ASSUME NEW a \in Peers, Crash(a)
        PROVE  h \in ghosts'[n] => h \in ghosts[n]
    BY <1>0, <2>4 DEF Crash
  <2>5. ASSUME NEW a \in Peers,
               \/ StartStep(a) \/ Leave(a) \/ Close(a)
               \/ VerifyFinds(a) \/ Confirm(a) \/ VerifyMisses(a)
        PROVE  UNCHANGED ghosts
    BY <2>5
    DEF StartStep, Start, RequestBootstrap, AssignHostIP, RecordHostIP, Leave, Close,
        VerifyFinds, Confirm, VerifyMisses, timerVars
  <2>6. ASSUME NEW a \in Peers, NEW b \in Peers,
               \/ CheckJoin(a, b) \/ Join(a, b) \/ JoinRequest(a, b) \/ LoopJoin(a, b)
               \/ LoopRequest(a, b) \/ GateStep(a, b)
               \/ JoinTimeout(a, b) \/ RetryTick(a, b) \/ RetrySend(a, b) \/ GhostAsk(a, b)
        PROVE  UNCHANGED ghosts
    BY <2>6
    DEF CheckJoin, Join, JoinRequest, LoopJoin, LoopRequest, GateStep, Ask, Accept, Deny, Drop,
        JoinTimeout, RetryTick, RetrySend, GhostAsk, timerVars
  <2>7. ASSUME NEW a \in Peers, NEW b \in Peers,
               \/ OnRequestIP(a, b) \/ OnOfferIP(a, b)
               \/ OnAckIP(a, b) \/ OnNackIP(a, b) \/ OnDisconnect(a, b)
        PROVE  UNCHANGED ghosts
    BY <2>7 DEF OnRequestIP, OnOfferIP, OnAckIP, OnNackIP, OnDisconnect, timerVars
  <2>8. ASSUME UNCHANGED vars PROVE UNCHANGED ghosts
    BY <2>8 DEF vars, timerVars
  <2>9. h \in ghosts[n] => IsAsking(n, h)
    BY DEF IsAsking
  <2>10. \/ UNCHANGED ghosts
         \/ \E a, b \in Peers : GhostEnds(a, b)
         \/ \E a \in Peers : Reopen(a) \/ Crash(a)
    BY <2>5, <2>6, <2>7, <2>8 DEF Next, ReadLoopStep, TimerStep
  <2>11. QED
    BY <2>1, <2>2, <2>3, <2>4, <2>9, <2>10
<1>3. loop'[n] = Joining(h) => Before
  <2>1. Confirming(loop[n].from, loop[n].ip) # Joining(h)
    BY DEF Confirming, Joining
  <2>2. \/ loop'[n] = loop[n]
        \/ loop'[n] = Idle
        \/ \E m \in Peers : LoopJoin(n, m) /\ loop'[n] = Joining(m)
        \/ \E m \in Peers : \E ip \in Address : loop'[n] = Verifying(m, ip)
        \/ loop'[n] = Confirming(loop[n].from, loop[n].ip)
    BY LoopSteps, Zenon
  <2>3. CASE loop'[n] = loop[n]
    BY <2>3 DEF IsAsking
  <2>4. ASSUME NEW m \in Peers, LoopJoin(n, m), loop'[n] = Joining(m), loop'[n] = Joining(h)
        PROVE  LoopJoin(n, h)
    <3>1. m = h
      BY <2>4 DEF Joining
    <3>2. QED
      BY <2>4, <3>1
  <2>5. Idle # Joining(h) /\ \A m \in Peers : \A ip \in Address : Verifying(m, ip) # Joining(h)
    BY DEF Idle, Joining, Verifying
  <2>6. QED
    BY <2>1, <2>2, <2>3, <2>4, <2>5
<1>4. h \in ghosts'[n] \/ Attempt' \/ loop'[n] = Joining(h)
  BY DEF IsAsking
<1>5. QED
  BY <1>1, <1>2, <1>3, <1>4

-----------------------------------------------------------------------------
\* Sessions end by a refusal or with their node.
LEMMA SessionSteps ==
  ASSUME TypeOK, [Next]_vars, NEW h \in Peers, NEW n \in session[h]
  PROVE  n \in session'[h] \/ Deny(h, n) \/ Close(h) \/ Forget(h)
<1>0. session \in [Peers -> SUBSET Peers]
  BY DEF TypeOK, SteamTypes
<1>1. ASSUME NEW a \in Peers, NEW ms \in SUBSET Peers, session' = [session EXCEPT ![a] = @ \cup ms]
      PROVE  n \in session'[h]
  BY <1>0, <1>1
<1>2. ASSUME NEW a \in Peers, NEW b \in Peers, NEW x, Send(a, b, x) PROVE n \in session'[h]
  <2>1. session' = [session EXCEPT ![a] = @ \cup {b}]
    BY <1>2 DEF Send
  <2>2. QED
    BY <1>0, <2>1
<1>3. ASSUME NEW a \in Peers, Leave(a) PROVE n \in session'[h]
  <2>1. session' = [session EXCEPT ![a] = @ \cup peers[a]]
    BY <1>3 DEF Leave
  <2>2. QED
    BY <1>0, <2>1
<1>4. ASSUME NEW a \in Peers, Close(a) PROVE n \in session'[h] \/ Close(h)
  <2>1. session' = [session EXCEPT ![a] = {}]
    BY <1>4 DEF Close
  <2>2. CASE a = h
    BY <1>4, <2>2
  <2>3. CASE a # h
    BY <1>0, <2>1, <2>3
  <2>4. QED
    BY <2>2, <2>3
<1>5. ASSUME NEW a \in Peers, Forget(a) PROVE n \in session'[h] \/ Forget(h)
  <2>1. session' = [session EXCEPT ![a] = {}]
    BY <1>5 DEF Forget
  <2>2. CASE a = h
    BY <1>5, <2>2
  <2>3. CASE a # h
    BY <1>0, <2>1, <2>3
  <2>4. QED
    BY <2>2, <2>3
<1>6. ASSUME NEW a \in Peers, NEW b \in Peers, Accept(a, b) PROVE n \in session'[h]
  BY <1>1, <1>6 DEF Accept
<1>7. ASSUME NEW a \in Peers, NEW b \in Peers, Deny(a, b) PROVE n \in session'[h] \/ Deny(h, n)
  <2>1. session' = [session EXCEPT ![a] = @ \ {b}]
    BY <1>7 DEF Deny
  <2>2. CASE a = h /\ b = n
    BY <1>7, <2>2
  <2>3. CASE ~(a = h /\ b = n)
    BY <1>0, <2>1, <2>3
  <2>4. QED
    BY <2>2, <2>3
<1>8. ASSUME NEW a \in Peers, StartStep(a) PROVE n \in session'[h]
  BY <1>2, <1>8, HandshakeAssumption
  DEF StartStep, Start, RequestBootstrap, AskFor, AssignHostIP, RecordHostIP, steamVars
<1>9. ASSUME NEW a \in Peers, NEW b \in Peers,
             JoinRequest(a, b) \/ LoopRequest(a, b) \/ RetrySend(a, b) \/ GhostAsk(a, b)
      PROVE  n \in session'[h]
  BY <1>2, <1>9 DEF JoinRequest, LoopRequest, RetrySend, GhostAsk, AskFor
<1>10. ASSUME NEW a \in Peers, Confirm(a) \/ VerifyMisses(a) PROVE n \in session'[h]
  <2>1. loop[a].from \in Peers
    <3>1. loop[a].at = "verify" \/ loop[a].at = "found"
      BY <1>10 DEF Confirm, VerifyMisses
    <3>2. QED
      BY <3>1, VerifyingTypes DEF TypeOK
  <2>2. \E x : Send(a, loop[a].from, x)
    BY <1>10 DEF Confirm, VerifyMisses
  <2>3. QED
    BY <1>2, <2>1, <2>2
<1>11. ASSUME NEW a \in Peers, NEW b \in Peers,
              \/ CheckJoin(a, b) \/ Join(a, b) \/ LoopJoin(a, b) \/ JoinTimeout(a, b)
              \/ RetryTick(a, b) \/ GhostEnds(a, b) \/ Ask(a, b) \/ Drop(a, b)
              \/ VerifyFinds(a)
       PROVE  n \in session'[h]
  BY <1>11
  DEF CheckJoin, Join, LoopJoin, JoinTimeout, RetryTick, GhostEnds, Ask, Drop, VerifyFinds,
      steamVars
<1>12. ASSUME NEW a \in Peers, NEW b \in Peers,
              \/ OnRequestIP(a, b) \/ OnOfferIP(a, b)
              \/ OnAckIP(a, b) \/ OnNackIP(a, b) \/ OnDisconnect(a, b)
       PROVE  n \in session'[h]
  BY <1>12 DEF OnRequestIP, OnOfferIP, OnAckIP, OnNackIP, OnDisconnect
<1>13. CASE UNCHANGED vars
  BY <1>13 DEF vars, steamVars
<1>14. QED
  BY <1>3, <1>4, <1>5, <1>6, <1>7, <1>8, <1>9, <1>10, <1>11, <1>12, <1>13
  DEF Next, ReadLoopStep, TimerStep, GateStep, Reopen, Crash

\* A session opens where its node sends to the peer, or accepts it.
LEMMA SessionGains ==
  ASSUME TypeOK, [Next]_vars, NEW h \in Peers, NEW n \in session'[h]
  PROVE  \/ n \in session[h] \/ Asks(h, n) \/ Accept(h, n) \/ Leave(h)
         \/ OnOffer(loop[h]) /\ loop[h].from = n
<1> DEFINE Goal == \/ n \in session[h] \/ Asks(h, n) \/ Accept(h, n) \/ Leave(h)
                   \/ OnOffer(loop[h]) /\ loop[h].from = n
<1>0. session \in [Peers -> SUBSET Peers]
  BY DEF TypeOK, SteamTypes
<1>1. ASSUME NEW a \in Peers, NEW b, NEW x, Send(a, b, x)
      PROVE  n \in session[h] \/ (a = h /\ b = n)
  <2>1. session' = [session EXCEPT ![a] = @ \cup {b}]
    BY <1>1 DEF Send
  <2>2. QED
    BY <1>0, <2>1
<1>2. ASSUME NEW a \in Peers, NEW b \in Peers,
             JoinRequest(a, b) \/ LoopRequest(a, b) \/ RetrySend(a, b) \/ GhostAsk(a, b)
      PROVE  Goal
  <2>1. UNCHANGED session \/ Send(a, b, Msg("request", NoIP))
    BY <1>2 DEF JoinRequest, LoopRequest, RetrySend, GhostAsk, AskFor
  <2>2. n \in session[h] \/ (a = h /\ b = n)
    BY <1>1, <2>1
  <2>3. QED
    BY <1>2, <2>2 DEF Asks
<1>3. ASSUME NEW a \in Peers, RequestBootstrap(a) PROVE Goal
  <2>1. n \in session[h] \/ (a = h /\ Bootstrap[a] = n)
    BY <1>1, <1>3 DEF RequestBootstrap, AskFor
  <2>2. QED
    BY <1>3, <2>1 DEF Asks
<1>4. ASSUME NEW a \in Peers, Confirm(a) \/ VerifyMisses(a) PROVE Goal
  <2>1. OnOffer(loop[a]) /\ \E x : Send(a, loop[a].from, x)
    BY <1>4 DEF Confirm, VerifyMisses, OnOffer
  <2>2. n \in session[h] \/ (a = h /\ loop[a].from = n)
    BY <1>1, <2>1
  <2>3. QED
    BY <2>1, <2>2
<1>5. ASSUME NEW a \in Peers, NEW b \in Peers, Accept(a, b) PROVE Goal
  <2>1. session' = [session EXCEPT ![a] = @ \cup {b}]
    BY <1>5 DEF Accept
  <2>2. n \in session[h] \/ (a = h /\ b = n)
    BY <1>0, <2>1
  <2>3. QED
    BY <1>5, <2>2
<1>6. ASSUME NEW a \in Peers, Leave(a) PROVE Goal
  <2>1. session' = [session EXCEPT ![a] = @ \cup peers[a]]
    BY <1>6 DEF Leave
  <2>2. n \in session[h] \/ a = h
    BY <1>0, <2>1
  <2>3. QED
    BY <1>6, <2>2
<1>7. ASSUME NEW a \in Peers, NEW b \in Peers, Close(a) \/ Forget(a) \/ Deny(a, b)
      PROVE  n \in session[h]
  <2>1. session' = [session EXCEPT ![a] = {}] \/ session' = [session EXCEPT ![a] = @ \ {b}]
    BY <1>7 DEF Close, Forget, Deny
  <2>2. QED
    BY <1>0, <2>1
<1>8. ASSUME NEW a \in Peers, Start(a) \/ AssignHostIP(a) \/ RecordHostIP(a)
      PROVE  n \in session[h]
  BY <1>8 DEF Start, AssignHostIP, RecordHostIP, steamVars
<1>9. ASSUME NEW a \in Peers, NEW b \in Peers,
              \/ CheckJoin(a, b) \/ Join(a, b) \/ LoopJoin(a, b) \/ JoinTimeout(a, b)
              \/ RetryTick(a, b) \/ GhostEnds(a, b) \/ Ask(a, b) \/ Drop(a, b)
              \/ VerifyFinds(a)
       PROVE  n \in session[h]
  BY <1>9
  DEF CheckJoin, Join, LoopJoin, JoinTimeout, RetryTick, GhostEnds, Ask, Drop, VerifyFinds,
      steamVars
<1>10. ASSUME NEW a \in Peers, NEW b \in Peers,
              \/ OnRequestIP(a, b) \/ OnOfferIP(a, b)
              \/ OnAckIP(a, b) \/ OnNackIP(a, b) \/ OnDisconnect(a, b)
       PROVE  n \in session[h]
  BY <1>10 DEF OnRequestIP, OnOfferIP, OnAckIP, OnNackIP, OnDisconnect
<1>11. CASE UNCHANGED vars
  BY <1>11 DEF vars, steamVars
<1>12. QED
  BY <1>2, <1>3, <1>4, <1>5, <1>6, <1>7, <1>8, <1>9, <1>10, <1>11
  DEF Next, StartStep, ReadLoopStep, TimerStep, GateStep, Reopen, Crash

\* Steam asks about a peer again only while its session is shut.
LEMMA PromptSteps ==
  ASSUME TypeOK, [Next]_vars, NEW h \in Peers, NEW n \in asked'[h]
  PROVE  /\ n \in asked[h] \/ (n \notin session[h] /\ UNCHANGED session)
         /\ ~Accept(h, n) /\ ~Deny(h, n) /\ ~Close(h) /\ ~Forget(h)
<1> DEFINE Good == n \in asked[h] \/ (n \notin session[h] /\ UNCHANGED session)
<1>0. asked \in [Peers -> SUBSET Peers]
  BY DEF TypeOK, SteamTypes
<1>1. ASSUME NEW a \in Peers, NEW b \in Peers, Ask(a, b)
      PROVE  Good
  <2>1. /\ asked' = [asked EXCEPT ![a] = @ \cup {b}]
        /\ b \notin session[a] /\ UNCHANGED session
    BY <1>1 DEF Ask
  <2>2. n \in asked[h] \/ (a = h /\ b = n)
    BY <1>0, <2>1
  <2>3. QED
    BY <2>1, <2>2
<1>2. ASSUME NEW a \in Peers,
             Close(a) \/ Forget(a) \/ \E b \in Peers : Accept(a, b) \/ Deny(a, b)
      PROVE  n \in asked[h]
  <2>1. \/ asked' = [asked EXCEPT ![a] = {}]
        \/ \E b \in Peers : asked' = [asked EXCEPT ![a] = @ \ {b}]
    BY <1>2 DEF Accept, Deny, Close, Forget
  <2>2. QED
    BY <1>0, <2>1
<1>3. ~Accept(h, n) /\ ~Deny(h, n) /\ ~Close(h) /\ ~Forget(h)
  BY <1>0 DEF Accept, Deny, Close, Forget
<1>4. ASSUME NEW a \in Peers, StartStep(a) \/ Leave(a) PROVE n \in asked[h]
  BY <1>4 DEF StartStep, Start, RequestBootstrap, AssignHostIP, RecordHostIP, Leave, steamVars
<1>5. ASSUME NEW a \in Peers, VerifyFinds(a) \/ Confirm(a) \/ VerifyMisses(a)
      PROVE  n \in asked[h]
  BY <1>5 DEF VerifyFinds, Confirm, VerifyMisses, steamVars
<1>6. ASSUME NEW a \in Peers, NEW b \in Peers,
             \/ CheckJoin(a, b) \/ Join(a, b) \/ JoinRequest(a, b) \/ LoopJoin(a, b)
             \/ LoopRequest(a, b) \/ TimerStep(a, b) \/ Drop(a, b)
      PROVE  n \in asked[h]
  BY <1>6
  DEF CheckJoin, Join, JoinRequest, LoopJoin, LoopRequest, TimerStep, JoinTimeout, RetryTick,
      RetrySend, GhostAsk, GhostEnds, Drop, steamVars
<1>7. ASSUME NEW a \in Peers, NEW b \in Peers,
             \/ OnRequestIP(a, b) \/ OnOfferIP(a, b)
             \/ OnAckIP(a, b) \/ OnNackIP(a, b) \/ OnDisconnect(a, b)
      PROVE  n \in asked[h]
  BY <1>7 DEF OnRequestIP, OnOfferIP, OnAckIP, OnNackIP, OnDisconnect
<1>8. ASSUME UNCHANGED vars PROVE n \in asked[h]
  BY <1>8 DEF vars, steamVars
<1>9. n \in asked[h] => Good
  OBVIOUS
<1> HIDE DEF Good
<1>10. Good
  BY <1>1, <1>2, <1>4, <1>5, <1>6, <1>7, <1>8, <1>9
  DEF Next, ReadLoopStep, GateStep, Reopen, Crash
<1>11. QED
  BY <1>3, <1>10 DEF Good

-----------------------------------------------------------------------------
\* A host goes on hearing the holders of its leases.
LEMMA HeardStep ==
  ASSUME PartingInv, [Next]_vars
  PROVE  HoldersAreHeard'
<1>1. SUFFICES ASSUME NEW n \in Peers, NEW h \in Peers, Holds(pool'[h], n)
               PROVE  Gone(h)' \/ (Running(h)' /\ n \in session'[h])
  BY DEF HoldersAreHeard
<1>0. /\ TypeOK
      /\ life \in [Peers -> Lives]
  BY DEF PartingInv, TypeOK
<1>2. ~Forget(h)
  BY <1>0, <1>1 DEF Forget, Holds, NewPool, TypeOK, ClientTypes
<1>3. CASE Gone(h)
  BY <1>0, <1>2, <1>3, GoneStays
<1>4. CASE ~Gone(h)
  <2>1. Running(h) /\ n \in session[h]
    <3>1. Holds(pool[h], n) \/ OnRequestIP(h, n)
      BY <1>0, <1>1, LeaseSteps
    <3>2. QED
      BY <1>4, <3>1 DEF PartingInv, HoldersAreHeard, OnRequestIP, CanReceive
  <2>2. ~Close(h)
    BY <1>4 DEF Close, Gone
  <2>3. CASE Leave(h)
    BY <1>0, <2>3 DEF Leave, Gone
  <2>4. CASE ~Leave(h)
    <3>1. Running(h)'
      <4>1. \/ life'[h] = life[h]
            \/ life[h] = "off" /\ life'[h] = "starting"
            \/ life[h] \in {"starting", "assigned"} /\ life'[h] \in {"assigned", "on"}
        BY <1>0, <1>2, <2>2, <2>4, LifeSteps
      <4>2. QED
        BY <2>1, <4>1 DEF Running
    <3>2. ~Deny(h, n)
      BY <1>4, <2>1 DEF PartingInv, RefuserIsQuiet, Deny, Gone
    <3>3. QED
      BY <1>0, <1>2, <2>1, <2>2, <3>1, <3>2, SessionSteps
  <2>5. QED
    BY <2>3, <2>4
<1>5. QED
  BY <1>3, <1>4

\* A refuser stays quiet.
LEMMA QuietStep ==
  ASSUME PartingInv, RefusersDoNotAsk, [Next]_vars
  PROVE  RefuserIsQuiet'
<1>1. SUFFICES ASSUME NEW h \in MayDeny
               PROVE  /\ \A m \in Peers : ~IsAsking(h, m)'
                      /\ life'[h] # "leaving" =>
                           /\ OnOffer(loop'[h]) => loop'[h].from \in session'[h]
                           /\ asked'[h] \cap session'[h] = {}
  BY DEF RefuserIsQuiet, OnOffer
<1>0. /\ TypeOK /\ h \in Peers
      /\ life \in [Peers -> Lives]
      /\ asked \in [Peers -> SUBSET Peers] /\ asked' \in [Peers -> SUBSET Peers]
      /\ session \in [Peers -> SUBSET Peers]
  BY HandshakeAssumption, TypeStep DEF PartingInv, TypeOK, ClientTypes, SteamTypes
<1>2. /\ \A m \in Peers : ~IsAsking(h, m)
      /\ life[h] # "leaving" =>
           /\ OnOffer(loop[h]) => loop[h].from \in session[h]
           /\ asked[h] \cap session[h] = {}
  BY DEF PartingInv, RefuserIsQuiet
<1>3. MayJoin[h] = {} /\ MayClick[h] = {} /\ Bootstrap[h] = NoPeer
  BY DEF RefusersDoNotAsk
<1>4. ASSUME NEW m \in Peers PROVE ~IsAsking(h, m)'
  <2>1. ~CheckJoin(h, m) /\ ~LoopJoin(h, m)
    BY <1>3 DEF CheckJoin, LoopJoin
  <2>2. QED
    BY <1>0, <1>2, <2>1, AskingSteps
<1>5. ASSUME NEW m \in asked'[h], m \in session'[h], life'[h] # "leaving"
      PROVE  FALSE
  <2>1. /\ m \in Peers
        /\ m \in asked[h] \/ (m \notin session[h] /\ UNCHANGED session)
        /\ ~Accept(h, m) /\ ~Close(h) /\ ~Forget(h)
    BY <1>0, <1>5, PromptSteps
  <2>2. m \in asked[h]
    BY <1>5, <2>1
  <2>3. ~Leave(h)
    BY <1>0, <1>5 DEF Leave
  <2>4. life[h] # "leaving"
    BY <1>0, <1>5, <2>1, <2>3, LifeSteps
  <2>5. m \notin session[h]
    BY <1>2, <2>2, <2>4
  <2>6. ~Asks(h, m)
    BY <1>0, <1>2, <1>3, <2>1, HandshakeAssumption
    DEF Asks, JoinRequest, LoopRequest, RetrySend, GhostAsk, RequestBootstrap, IsAsking
  <2>7. ~(OnOffer(loop[h]) /\ loop[h].from = m)
    BY <1>2, <2>4, <2>5
  <2>8. QED
    BY <1>0, <1>5, <2>1, <2>3, <2>5, <2>6, <2>7, SessionGains
<1>6. ASSUME OnOffer(loop'[h]), life'[h] # "leaving" PROVE loop'[h].from \in session'[h]
  <2>0. ~Leave(h)
    BY <1>0, <1>6 DEF Leave
  <2>1. ASSUME NEW m \in Peers, NEW ip \in Address, OnOfferIP(h, m), loop'[h] = Verifying(m, ip)
        PROVE  loop'[h].from \in session'[h]
    BY <2>1 DEF OnOfferIP, CanReceive, Verifying
  <2>2. CASE VerifyFinds(h) /\ loop'[h] = Confirming(loop[h].from, loop[h].ip)
    <3>1. OnOffer(loop[h]) /\ UNCHANGED << life, session >>
      BY <2>2 DEF VerifyFinds, OnOffer, steamVars
    <3>2. loop'[h].from = loop[h].from
      BY <2>2 DEF Confirming
    <3>3. QED
      BY <1>2, <1>6, <3>1, <3>2
  <2>3. CASE loop'[h] = loop[h] /\ ~Close(h) /\ ~Forget(h)
    <3>1. life[h] # "leaving"
      BY <1>0, <1>6, <2>0, <2>3, LifeSteps
    <3>2. loop[h].from \in session[h] /\ loop[h].from \in Peers
      BY <1>0, <1>2, <1>6, <2>3, <3>1, VerifyingTypes DEF OnOffer, TypeOK
    <3>3. ~Deny(h, loop[h].from)
      BY <1>2, <3>1, <3>2 DEF Deny
    <3>4. QED
      BY <1>0, <2>3, <3>2, <3>3, SessionSteps
  <2>4. ASSUME NEW m \in Peers, loop'[h] = Idle \/ loop'[h] = Joining(m) PROVE FALSE
    BY <1>6, <2>4 DEF OnOffer, Idle, Joining
  <2>5. QED
    BY <1>0, <2>1, <2>2, <2>3, <2>4, LoopSteps
<1>7. QED
  BY <1>4, <1>5, <1>6

\* The invariant of departures.
LEMMA PartingInit == Init => PartingInv
<1>1. SUFFICES ASSUME Init PROVE PartingInv
  OBVIOUS
<1>2. TypeOK
  BY <1>1, TypeInit
<1>3. \A n, h \in Peers : ~Holds(pool[h], n)
  BY <1>1 DEF Init, NewPool, Holds
<1>4. LeasesAreClosing /\ HoldersAreHeard
  BY <1>1, <1>3 DEF Init, LeasesAreClosing, HoldersAreHeard
<1>5. RefuserIsQuiet
  <2>1. SUFFICES ASSUME NEW h \in MayDeny
                 PROVE  /\ \A m \in Peers : ~IsAsking(h, m)
                        /\ ~OnOffer(loop[h]) /\ asked[h] = {}
    BY DEF RefuserIsQuiet
  <2>2. h \in Peers
    BY HandshakeAssumption
  <2>3. ~OnOffer(loop[h]) /\ asked[h] = {}
    BY <1>1, <2>2 DEF Init, OnOffer, Idle
  <2>4. \A m \in Peers : ~IsAsking(h, m)
    BY <1>1, <2>2 DEF Init, IsAsking, Pairs, Idle, Joining
  <2>5. QED
    BY <2>3, <2>4
<1>6. QED
  BY <1>2, <1>4, <1>5 DEF PartingInv

LEMMA PartingInvariance ==
  ASSUME RefusersDoNotAsk
  PROVE  Spec => []PartingInv
<1>1. Init => PartingInv
  BY PartingInit
<1>2. PartingInv /\ [Next]_vars => PartingInv'
  <2>1. SUFFICES ASSUME PartingInv, [Next]_vars PROVE PartingInv'
    OBVIOUS
  <2>2. TypeOK'
    BY <2>1, TypeStep DEF PartingInv
  <2>3. LeasesAreClosing'
    BY <2>1, ClosingStep DEF LeasesAreClosing
  <2>4. HoldersAreHeard' /\ RefuserIsQuiet'
    BY <2>1, HeardStep, QuietStep
  <2>5. QED
    BY <2>2, <2>3, <2>4 DEF PartingInv
<1>3. QED
  BY <1>1, <1>2, PTL DEF Spec

(***************************************************************************)
(* Once a guest has told a host that it leaves, and has not asked it       *)
(* since, the host, if it runs and has handled the guest's last message,   *)
(* holds no lease for it (client.go l.176-190, 372-382): however requests  *)
(* and retries were queued, a Disconnect is the last of those messages,    *)
(* and the host hears it.  The hypothesis is needed: a host that itself    *)
(* asked the guest for an address, and then refuses the prompt that the    *)
(* guest's session had raised before, shuts the session and loses the      *)
(* Disconnect.                                                             *)
(***************************************************************************)
THEOREM DepartureFreesLeases ==
  ASSUME RefusersDoNotAsk
  PROVE  Spec => []DepartureFrees
<1>1. PartingInv => DepartureFrees
  <2>1. SUFFICES ASSUME PartingInv, NEW n \in Peers, NEW h \in Peers,
                        h \in told[n], life[h] = "on", net[<< n, h >>] = << >>
                 PROVE  ~Holds(pool[h], n)
    BY DEF DepartureFrees
  <2>2. Closing(n, h) /\ ~Gone(h)
    BY <2>1 DEF PartingInv, LeasesAreClosing, Gone
  <2>3. QED
    BY <2>1, <2>2, EmptyQueue DEF Closing
<1>2. Spec => []PartingInv
  BY PartingInvariance
<1>3. QED
  BY <1>1, <1>2, PTL

=============================================================================
