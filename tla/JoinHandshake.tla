--------------------------- MODULE JoinHandshake ---------------------------
(***************************************************************************)
(* The control protocol of internal/steam/client.go between the nodes of   *)
(* an overlay: any node may ask any other for an address (Join), any node  *)
(* serves requests from its own pool.  A node runs several goroutines on   *)
(* one Client: the ReadLoop, the callers of Join, and for every Join one   *)
(* joinTimeout and one joinRetry.                                          *)
(*                                                                         *)
(* The transport is Steam's: between two nodes reliable messages keep      *)
(* their order; a node receives only from peers whose session it has       *)
(* accepted, and sending to a peer accepts its session.                    *)
(*                                                                         *)
(* A node lives from Start to Close or to a crash of the process, and may  *)
(* live again; after a Close the joinRetry goroutines of the last Client   *)
(* are still there.                                                        *)
(***************************************************************************)
EXTENDS Ipam

CONSTANTS
  NoPeer,         \* not a Steam identity
  HostIP,         \* the address a host assigns itself (1 in the code)
  Bootstrap,      \* Bootstrap[n]: the --peer of node n, or NoPeer
  MayJoin,        \* MayJoin[n]: the hosts n's user may ask to join by Steam ID
  MayClick,       \* MayClick[n]: the hosts n's user may join from Steam
  Friends,        \* Friends[n]: the peers n accepts without a prompt
  MayDeny,        \* the nodes whose user may refuse a stranger
  MayLeave,       \* the nodes whose user may stop the bridge
  MayCrash,       \* the nodes whose process may crash
  SetIPOutcomes,  \* what tunDev.SetIP may do: see SetIP below
  VerifyMayFail,  \* whether the interface may not show the new address
  MaxJoins,       \* bound: calls of Join by one node for one host
  MaxInFlight,    \* bound: a retry waits while this many messages are queued
  MaxRestarts     \* bound: restarts of all nodes together

ASSUME HandshakeAssumption ==
  /\ NoPeer \notin Peers
  /\ HostIP \in Nat \ {0} /\ HostIP < FirstHost
  /\ Bootstrap \in [Peers -> Peers \cup {NoPeer}]
  /\ MayJoin \in [Peers -> SUBSET Peers] /\ MayClick \in [Peers -> SUBSET Peers]
  /\ Friends \in [Peers -> SUBSET Peers]
  /\ \A n \in Peers : Bootstrap[n] # n /\ n \notin MayJoin[n] \cup MayClick[n]
  /\ MayDeny \subseteq Peers /\ MayLeave \subseteq Peers /\ MayCrash \subseteq Peers
  /\ SetIPOutcomes \subseteq {"set", "unchanged", "flushed", "half"}
  /\ VerifyMayFail \in BOOLEAN
  /\ MaxJoins \in Nat /\ MaxInFlight \in Nat /\ MaxRestarts \in Nat

VARIABLES
  life,      \* life[n]: "off"; Start: "starting", "assigned"; "on";
             \* "leaving" (Disconnect sent), "closed"
  pool,      \* pool[n]: ipPool
  peers,     \* peers[n]: steamIDs
  pending,   \* pending[n]: pendingJoins
  localIP,   \* localIP[n]
  devIP,     \* devIP[n]: the address of the TUN interface
  loop,      \* loop[n]: what the ReadLoop is doing
  call,      \* call[n, h]: where a call of Join(h) stands
  timeouts,  \* timeouts[n, h]: sleeping joinTimeout goroutines
  retries,   \* retries[n, h]: joinRetry goroutines waiting for their tick
  sending,   \* sending[n, h]: joinRetry goroutines past their check
  ghosts,    \* ghosts[n]: the hosts n's earlier Clients still ask
  net,       \* net[m, n]: messages from m on their way to n
  session,   \* session[n]: peers whose messages Steam delivers to n
  asked,     \* asked[n]: peers whose session request n has not answered
  joins,     \* joins[n, h]: calls of Join so far
  results,   \* results[n, h]: onJoinResult callbacks so far
  outcome,   \* outcome[n, h]: the last of them
  source,    \* history: who offered localIP[n]
  gaveUp,    \* history: the peers whose offer n ever refused, or that it left
  spoiled,   \* history: the peers whose offers a farewell of n may undo
  firm,      \* history: the peer whose offer n adopted, and no farewell undoes
  told,      \* history: the peers n told it leaves, and has not asked since
  restarts   \* history: lives of n after its first

clientVars  == << pool, peers, pending, localIP, devIP, loop >>
attemptVars == << call, timeouts, retries, sending >>
timerVars   == << attemptVars, ghosts >>
steamVars   == << net, session, asked >>
resultVars  == << joins, results, outcome >>
farewellVars == << gaveUp, spoiled, firm >>
historyVars == << source, farewellVars, told, restarts >>

vars == << life, clientVars, timerVars, steamVars, resultVars, historyVars >>

Pairs == Peers \X Peers
Address == Addr \cup {NoIP, HostIP}

Action == {"request", "offer", "ack", "nack", "disconnect"}
Message == [act : Action, ip : Address]
Msg(act, ip) == [act |-> act, ip |-> ip]

Idle == [at |-> "idle"]
Verifying(m, ip) == [at |-> "verify", from |-> m, ip |-> ip]
Confirming(m, ip) == [at |-> "found", from |-> m, ip |-> ip]
Joining(h) == [at |-> "joining", host |-> h]
LoopStates ==
  {Idle} \cup {Joining(h) : h \in Peers}
    \cup {Verifying(m, ip) : m \in Peers, ip \in Address}
    \cup {Confirming(m, ip) : m \in Peers, ip \in Address}

ClientTypes ==
  /\ pool \in [Peers -> Pool]
  /\ peers \in [Peers -> SUBSET Peers]
  /\ pending \in [Peers -> SUBSET Peers]
  /\ localIP \in [Peers -> Address]
  /\ devIP \in [Peers -> Address]
  /\ loop \in [Peers -> LoopStates]

TimerTypes ==
  /\ call \in [Pairs -> {"none", "checked", "request"}]
  /\ timeouts \in [Pairs -> Nat]
  /\ retries \in [Pairs -> Nat]
  /\ sending \in [Pairs -> Nat]
  /\ ghosts \in [Peers -> SUBSET Peers]

SteamTypes ==
  /\ net \in [Pairs -> Seq(Message)]
  /\ session \in [Peers -> SUBSET Peers]
  /\ asked \in [Peers -> SUBSET Peers]

ResultTypes ==
  /\ joins \in [Pairs -> Nat]
  /\ results \in [Pairs -> Nat]
  /\ outcome \in [Pairs -> {"none", "connected", "failed"}]

HistoryTypes ==
  /\ source \in [Peers -> Peers \cup {NoPeer}]
  /\ gaveUp \in [Peers -> SUBSET Peers]
  /\ spoiled \in [Peers -> SUBSET Peers]
  /\ firm \in [Peers -> Peers \cup {NoPeer}]
  /\ told \in [Peers -> SUBSET Peers]
  /\ restarts \in [Peers -> Nat]

Lives == {"off", "starting", "assigned", "on", "leaving", "closed"}

TypeOK ==
  /\ life \in [Peers -> Lives]
  /\ ClientTypes
  /\ TimerTypes
  /\ SteamTypes
  /\ ResultTypes
  /\ HistoryTypes

Init ==
  /\ life = [n \in Peers |-> "off"]
  /\ pool = [n \in Peers |-> NewPool]
  /\ peers = [n \in Peers |-> {}]
  /\ pending = [n \in Peers |-> {}]
  /\ localIP = [n \in Peers |-> NoIP]
  /\ devIP = [n \in Peers |-> NoIP]
  /\ loop = [n \in Peers |-> Idle]
  /\ call = [p \in Pairs |-> "none"]
  /\ timeouts = [p \in Pairs |-> 0]
  /\ retries = [p \in Pairs |-> 0]
  /\ sending = [p \in Pairs |-> 0]
  /\ ghosts = [n \in Peers |-> {}]
  /\ net = [p \in Pairs |-> << >>]
  /\ session = [n \in Peers |-> {}]
  /\ asked = [n \in Peers |-> {}]
  /\ joins = [p \in Pairs |-> 0]
  /\ results = [p \in Pairs |-> 0]
  /\ outcome = [p \in Pairs |-> "none"]
  /\ source = [n \in Peers |-> NoPeer]
  /\ gaveUp = [n \in Peers |-> {}]
  /\ spoiled = [n \in Peers |-> {}]
  /\ firm = [n \in Peers |-> NoPeer]
  /\ told = [n \in Peers |-> {}]
  /\ restarts = [n \in Peers |-> 0]

-----------------------------------------------------------------------------
(***************************************************************************)
(* Pieces of the handlers.                                                 *)
(***************************************************************************)

\* The bridge is initialised and the ReadLoop's context may be live.
Running(n) == life[n] \in {"starting", "assigned", "on", "leaving"}

\* The running flag is set; a Stop clears it.
Up(n) == life[n] \in {"starting", "assigned", "on"}

\* SendControlMessage from a goroutine other than the ReadLoop.
Send(n, m, msg) ==
  /\ net' = [net EXCEPT ![<< n, m >>] = Append(@, msg)]
  /\ session' = [session EXCEPT ![n] = @ \cup {m}]

\* Asking h for an address.  Faulty variant: nobody is asked.
AskNobody(n, h) == UNCHANGED << net, session, told >>
AskFor(n, h) ==
  IF Running(n)
  THEN Send(n, h, Msg("request", NoIP)) /\ told' = [told EXCEPT ![n] = @ \ {h}]
  ELSE UNCHANGED << net, session, told >>

\* The ReadLoop takes the next message from m, and maybe answers it.
Take(n, m) == net' = [net EXCEPT ![<< m, n >>] = Tail(@)]
TakeAndAnswer(n, m, msg) ==
  LET taken == [net EXCEPT ![<< m, n >>] = Tail(@)] IN
  net' = [taken EXCEPT ![<< n, m >>] = Append(@, msg)]

\* Faulty variant: the outcome is reported whether or not a join is pending.
ResolveAlways(n, h, connected) ==
  /\ pending' = [pending EXCEPT ![n] = @ \ {h}]
  /\ results' = [results EXCEPT ![<< n, h >>] = @ + 1]
  /\ outcome' = [outcome EXCEPT ![<< n, h >>] = IF connected THEN "connected" ELSE "failed"]

\* resolveJoin(h, connected): the first outcome of a pending join is reported,
\* any other is ignored.
Resolve(n, h, connected) ==
  IF h \in pending[n]
  THEN /\ pending' = [pending EXCEPT ![n] = @ \ {h}]
       /\ results' = [results EXCEPT ![<< n, h >>] = @ + 1]
       /\ outcome' = [outcome EXCEPT ![<< n, h >>] =
                        IF connected THEN "connected" ELSE "failed"]
  ELSE UNCHANGED << pending, results, outcome >>

\* The address a node takes for its own, and who offered it.  Faulty variant:
\* it is not recorded.
AdoptNothing(n, m, ip) ==
  /\ firm' = [firm EXCEPT ![n] = IF m \in spoiled[n] THEN NoPeer ELSE m]
  /\ UNCHANGED << localIP, source >>
Adopt(n, m, ip) ==
  /\ localIP' = [localIP EXCEPT ![n] = ip]
  /\ source' = [source EXCEPT ![n] = m]
  /\ firm' = [firm EXCEPT ![n] = IF m \in spoiled[n] THEN NoPeer ELSE m]

\* History of farewells.  A NACK or a Disconnect of n on its way to m undoes,
\* once m reads it, whatever m has offered n until then.
Farewell(n, ms) ==
  /\ spoiled' = [spoiled EXCEPT ![n] = @ \cup ms]
  /\ firm' = [firm EXCEPT ![n] = IF @ \in ms THEN NoPeer ELSE @]

GiveUpOn(n, ms) == gaveUp' = [gaveUp EXCEPT ![n] = @ \cup ms] /\ Farewell(n, ms)

IsFarewell(msg) == msg.act \in {"nack", "disconnect"}

\* An offer of n to m starts afresh, when m reads no older one and n has read
\* every farewell of m.
StartsAfresh(n, m) ==
  /\ \A i \in DOMAIN Tail(net[<< m, n >>]) : ~IsFarewell(Tail(net[<< m, n >>])[i])
  /\ \A i \in DOMAIN net[<< n, m >>] : net[<< n, m >>][i].act # "offer"
  /\ loop[m].at \in {"verify", "found"} => loop[m].from # n

Offered(n, m) ==
  spoiled' = IF StartsAfresh(n, m) THEN [spoiled EXCEPT ![m] = @ \ {n}] ELSE spoiled

\* What one call of SetIP(ip) may leave on the interface, by outcome: set; an
\* error before or after the old address was flushed; an error after the new
\* address was added.
DeviceAfter(outc, old, ip) ==
  CASE outc = "set" \/ outc = "half" -> ip
    [] outc = "unchanged"            -> old
    [] outc = "flushed"              -> NoIP

-----------------------------------------------------------------------------
(***************************************************************************)
(* Start: a new client, and then, while its ReadLoop already runs, a node  *)
(* with a --peer asks it for an address and any other node assigns itself  *)
(* HostIP.                                                                 *)
(***************************************************************************)
Start(n) ==
  /\ life[n] = "off"
  /\ life' = [life EXCEPT ![n] = "starting"]
  /\ peers' = [peers EXCEPT ![n] = @ \cup ({Bootstrap[n]} \ {NoPeer})]
  /\ UNCHANGED << pool, pending, localIP, devIP, loop, timerVars, steamVars, resultVars,
                  historyVars >>

RequestBootstrap(n) ==
  /\ life[n] = "starting" /\ Bootstrap[n] # NoPeer
  /\ life' = [life EXCEPT ![n] = "on"]
  /\ AskFor(n, Bootstrap[n])
  /\ UNCHANGED << clientVars, timerVars, asked, resultVars, source, farewellVars, restarts >>

AssignHostIP(n) ==
  /\ life[n] = "starting" /\ Bootstrap[n] = NoPeer
  /\ \E outc \in SetIPOutcomes :
       /\ devIP' = [devIP EXCEPT ![n] = DeviceAfter(outc, @, HostIP)]
       /\ life' = [life EXCEPT ![n] = IF outc = "set" THEN "assigned" ELSE "on"]
  /\ UNCHANGED << pool, peers, pending, localIP, loop, timerVars, steamVars, resultVars,
                  historyVars >>

RecordHostIP(n) ==
  /\ life[n] = "assigned"
  /\ life' = [life EXCEPT ![n] = "on"]
  /\ Adopt(n, NoPeer, HostIP)
  /\ UNCHANGED << pool, peers, pending, devIP, loop, timerVars, steamVars, resultVars,
                  gaveUp, spoiled, told, restarts >>

(***************************************************************************)
(* Join(h): register the peer and the pending join, then send the request  *)
(* and start the two timers.  The ReadLoop, the timers and a Stop may run  *)
(* in between.                                                             *)
(***************************************************************************)
Register(n, h) ==
  /\ peers' = [peers EXCEPT ![n] = @ \cup {h}]
  /\ pending' = [pending EXCEPT ![n] = @ \cup {h}]
  /\ joins' = [joins EXCEPT ![<< n, h >>] = @ + 1]

\* The user's Join looks whether the bridge runs, and goes on whatever becomes
\* of it.
CheckJoin(n, h) ==
  /\ Up(n) /\ h \in MayJoin[n]
  /\ call[<< n, h >>] = "none" /\ joins[<< n, h >>] < MaxJoins
  /\ call' = [call EXCEPT ![<< n, h >>] = "checked"]
  /\ UNCHANGED << life, clientVars, timeouts, retries, sending, ghosts, steamVars, resultVars,
                  historyVars >>

Join(n, h) ==
  /\ call[<< n, h >>] = "checked" /\ life[n] # "off"
  /\ Register(n, h)
  /\ call' = [call EXCEPT ![<< n, h >>] = "request"]
  /\ UNCHANGED << life, pool, localIP, devIP, loop, timeouts, retries, sending, ghosts,
                  steamVars, results, outcome, historyVars >>

\* Faulty variant: no retry is started.
StartTimeout(n, h) ==
  timeouts' = [timeouts EXCEPT ![<< n, h >>] = @ + 1] /\ UNCHANGED retries
StartTimers(n, h) ==
  /\ timeouts' = [timeouts EXCEPT ![<< n, h >>] = @ + 1]
  /\ retries' = [retries EXCEPT ![<< n, h >>] = @ + 1]

JoinRequest(n, h) ==
  /\ call[<< n, h >>] = "request"
  /\ call' = [call EXCEPT ![<< n, h >>] = "none"]
  /\ AskFor(n, h)
  /\ StartTimers(n, h)
  /\ UNCHANGED << life, clientVars, sending, ghosts, asked, resultVars, source, farewellVars,
                  restarts >>

\* The ReadLoop joins a friend the user chose in Steam, and does not look
\* whether the bridge runs: it does so until it sees that it is cancelled.
LoopJoin(n, h) ==
  /\ Running(n) /\ loop[n] = Idle /\ h \in MayClick[n] /\ joins[<< n, h >>] < MaxJoins
  /\ Register(n, h)
  /\ loop' = [loop EXCEPT ![n] = Joining(h)]
  /\ UNCHANGED << life, pool, localIP, devIP, timerVars, steamVars, results, outcome,
                  historyVars >>

LoopRequest(n, h) ==
  /\ loop[n] = Joining(h)
  /\ loop' = [loop EXCEPT ![n] = Idle]
  /\ AskFor(n, h)
  /\ StartTimers(n, h)
  /\ UNCHANGED << life, pool, peers, pending, localIP, devIP, call, sending, ghosts, asked,
                  resultVars, source, farewellVars, restarts >>

\* A joinTimeout goroutine wakes up.  Nothing ties it to its own attempt, nor
\* to the engine's context.
JoinTimeout(n, h) ==
  /\ timeouts[<< n, h >>] > 0
  /\ timeouts' = [timeouts EXCEPT ![<< n, h >>] = @ - 1]
  /\ Resolve(n, h, FALSE)
  /\ UNCHANGED << life, pool, peers, localIP, devIP, loop, call, retries,
                  sending, ghosts, steamVars, joins, historyVars >>

\* The tick of a joinRetry goroutine: it stops when nothing is pending, and
\* otherwise goes on to send, having released the lock.
RetryTick(n, h) ==
  /\ retries[<< n, h >>] > 0
  /\ Len(net[<< n, h >>]) < MaxInFlight /\ Len(net[<< h, n >>]) < MaxInFlight
  /\ retries' = [retries EXCEPT ![<< n, h >>] = @ - 1]
  /\ sending' = IF h \in pending[n] THEN [sending EXCEPT ![<< n, h >>] = @ + 1] ELSE sending
  /\ UNCHANGED << life, clientVars, call, timeouts, ghosts, steamVars, resultVars,
                  historyVars >>

RetrySend(n, h) ==
  /\ sending[<< n, h >>] > 0
  /\ sending' = [sending EXCEPT ![<< n, h >>] = @ - 1]
  /\ retries' = [retries EXCEPT ![<< n, h >>] = @ + 1]
  /\ AskFor(n, h)
  /\ UNCHANGED << life, clientVars, call, timeouts, ghosts, asked, resultVars,
                  source, farewellVars, restarts >>

\* A joinRetry goroutine of a Client that was closed: it asks through the
\* bridge of the next one, until its own Client's timeout ends it.
GhostAsk(n, h) ==
  /\ h \in ghosts[n]
  /\ Len(net[<< n, h >>]) < MaxInFlight /\ Len(net[<< h, n >>]) < MaxInFlight
  /\ AskFor(n, h)
  /\ UNCHANGED << life, clientVars, timerVars, asked, resultVars, source, farewellVars,
                  restarts >>

GhostEnds(n, h) ==
  /\ h \in ghosts[n]
  /\ ghosts' = [ghosts EXCEPT ![n] = @ \ {h}]
  /\ UNCHANGED << life, clientVars, attemptVars, steamVars, resultVars, historyVars >>

-----------------------------------------------------------------------------
(***************************************************************************)
(* The ReadLoop of n handles the message at the head of m's queue.         *)
(***************************************************************************)
CanReceive(n, m, act) ==
  /\ Running(n) /\ loop[n] = Idle
  /\ m \in session[n] /\ net[<< m, n >>] # << >> /\ Head(net[<< m, n >>]).act = act

\* A guest asks for an address: offer the one it gets, or refuse.
OnRequestIP(n, m) ==
  /\ CanReceive(n, m, "request")
  /\ pool' = [pool EXCEPT ![n] = AfterAllocate(@, m)]
  /\ LET ip == Granted(pool[n], m) IN
       IF ip = NoIP
       THEN TakeAndAnswer(n, m, Msg("nack", NoIP)) /\ Farewell(n, {m})
       ELSE TakeAndAnswer(n, m, Msg("offer", ip)) /\ Offered(n, m) /\ UNCHANGED firm
  /\ UNCHANGED << life, peers, pending, localIP, devIP, loop, timerVars, session,
                  asked, resultVars, source, gaveUp, told, restarts >>

\* An offer, asked for or not: set the interface, then go on to verify it; an
\* error refuses the offer and fails the join.
OnOfferIP(n, m) ==
  /\ CanReceive(n, m, "offer")
  /\ LET ip == Head(net[<< m, n >>]).ip IN
     \E outc \in SetIPOutcomes :
       /\ devIP' = [devIP EXCEPT ![n] = DeviceAfter(outc, @, ip)]
       /\ IF outc = "set"
          THEN /\ Take(n, m)
               /\ loop' = [loop EXCEPT ![n] = Verifying(m, ip)]
               /\ UNCHANGED << pending, results, outcome, farewellVars >>
          ELSE /\ TakeAndAnswer(n, m, Msg("nack", NoIP))
               /\ GiveUpOn(n, {m})
               /\ Resolve(n, m, FALSE)
               /\ UNCHANGED loop
  /\ UNCHANGED << life, pool, peers, localIP, timerVars, session, asked, joins,
                  source, told, restarts >>

\* A look at the interface shows the address.
VerifyFinds(n) ==
  /\ Running(n) /\ loop[n].at = "verify" /\ devIP[n] = loop[n].ip
  /\ loop' = [loop EXCEPT ![n] = Confirming(loop[n].from, loop[n].ip)]
  /\ UNCHANGED << life, pool, peers, pending, localIP, devIP, timerVars, steamVars, resultVars,
                  historyVars >>

\* Whatever the interface shows by now: acknowledge the address, record it and
\* report the join connected.
Confirm(n) ==
  /\ Running(n) /\ loop[n].at = "found"
  /\ LET m == loop[n].from  ip == loop[n].ip IN
       /\ Send(n, m, Msg("ack", ip))
       /\ Adopt(n, m, ip)
       /\ Resolve(n, m, TRUE)
  /\ loop' = [loop EXCEPT ![n] = Idle]
  /\ UNCHANGED << life, pool, peers, devIP, timerVars, asked, joins, gaveUp, spoiled,
                  told, restarts >>

\* Three looks, a second apart, did not find it: refuse the offer.
VerifyMisses(n) ==
  /\ Running(n) /\ loop[n].at = "verify"
  /\ LET m == loop[n].from  ip == loop[n].ip IN
       /\ VerifyMayFail \/ devIP[n] # ip
       /\ Send(n, m, Msg("nack", ip))
       /\ GiveUpOn(n, {m})
       /\ Resolve(n, m, FALSE)
  /\ loop' = [loop EXCEPT ![n] = Idle]
  /\ UNCHANGED << life, pool, peers, localIP, devIP, timerVars, asked, joins,
                  source, told, restarts >>

\* An acknowledgement is only logged.
OnAckIP(n, m) ==
  /\ CanReceive(n, m, "ack")
  /\ Take(n, m)
  /\ UNCHANGED << life, clientVars, timerVars, session, asked, resultVars,
                  historyVars >>

\* A refusal means two things at once: the guest m refuses our offer, so its
\* lease is free; the host m refuses our request, so our join failed.
OnNackIP(n, m) ==
  /\ CanReceive(n, m, "nack")
  /\ Take(n, m)
  /\ pool' = [pool EXCEPT ![n] = AfterRelease(@, m)]
  /\ Resolve(n, m, FALSE)
  /\ UNCHANGED << life, peers, localIP, devIP, loop, timerVars, session, asked,
                  joins, historyVars >>

OnDisconnect(n, m) ==
  /\ CanReceive(n, m, "disconnect")
  /\ Take(n, m)
  /\ pool' = [pool EXCEPT ![n] = AfterRelease(@, m)]
  /\ peers' = [peers EXCEPT ![n] = @ \ {m}]
  /\ Resolve(n, m, FALSE)
  /\ UNCHANGED << life, localIP, devIP, loop, timerVars, session, asked, joins,
                  historyVars >>

-----------------------------------------------------------------------------
(***************************************************************************)
(* Steam's session gate.  A message from a peer n has not accepted raises  *)
(* a session request, and is kept for a while or dropped.                  *)
(***************************************************************************)
Ask(n, m) ==
  /\ Running(n) /\ m \notin session[n] /\ net[<< m, n >>] # << >>
  /\ m \notin asked[n]
  /\ asked' = [asked EXCEPT ![n] = @ \cup {m}]
  /\ UNCHANGED << life, clientVars, timerVars, net, session, resultVars,
                  historyVars >>

\* The ReadLoop accepts a friend; the user accepts a stranger, though a Stop
\* may have overtaken the call.
Accept(n, m) ==
  /\ m \in asked[n] /\ Running(n)
  /\ m \in Friends[n] => loop[n] = Idle
  /\ asked' = [asked EXCEPT ![n] = @ \ {m}]
  /\ session' = [session EXCEPT ![n] = @ \cup {m}]
  /\ peers' = [peers EXCEPT ![n] = @ \cup {m}]
  /\ UNCHANGED << life, pool, pending, localIP, devIP, loop, timerVars, net,
                  resultVars, historyVars >>

\* The user refuses a stranger: the session and what waits in it are closed.
Deny(n, m) ==
  /\ n \in MayDeny /\ Running(n) /\ m \in asked[n] \ Friends[n]
  /\ asked' = [asked EXCEPT ![n] = @ \ {m}]
  /\ session' = [session EXCEPT ![n] = @ \ {m}]
  /\ net' = [net EXCEPT ![<< m, n >>] = << >>]
  /\ UNCHANGED << life, clientVars, timerVars, resultVars, historyVars >>

\* A message nobody will read is dropped, once it has raised its request.
Drop(n, m) ==
  /\ net[<< m, n >>] # << >>
  /\ ~Running(n) \/ (m \notin session[n] /\ m \in asked[n])
  /\ Take(n, m)
  /\ UNCHANGED << life, clientVars, timerVars, session, asked, resultVars,
                  historyVars >>

-----------------------------------------------------------------------------
(***************************************************************************)
(* Stop tells every known peer, cancels the engine and waits for the       *)
(* ReadLoop; the timers of Join are not waited for.  A later Start begins  *)
(* with a new Client.  A crash loses all of the process's state and tells  *)
(* nobody.                                                                 *)
(***************************************************************************)

\* The hosts that n's goroutines still ask for an address.
Unanswered(n) ==
  {h \in Peers : \/ h \in pending[n] \cup ghosts[n]
                 \/ sending[<< n, h >>] > 0
                 \/ call[<< n, h >>] = "request"}

Leave(n) ==
  /\ n \in MayLeave /\ life[n] = "on"
  /\ life' = [life EXCEPT ![n] = "leaving"]
  /\ net' = [p \in Pairs |->
               IF p[1] = n /\ p[2] \in peers[n]
               THEN Append(net[p], Msg("disconnect", localIP[n])) ELSE net[p]]
  /\ session' = [session EXCEPT ![n] = @ \cup peers[n]]
  /\ GiveUpOn(n, peers[n])
  /\ told' = [told EXCEPT ![n] = @ \cup peers[n]]
  /\ UNCHANGED << clientVars, timerVars, asked, resultVars, source, restarts >>

Close(n) ==
  /\ life[n] = "leaving" /\ loop[n] = Idle
  /\ life' = [life EXCEPT ![n] = "closed"]
  /\ session' = [session EXCEPT ![n] = {}]
  /\ asked' = [asked EXCEPT ![n] = {}]
  /\ UNCHANGED << clientVars, timerVars, net, resultVars, historyVars >>

Reset(f, n, v) == [p \in Pairs |-> IF p[1] = n THEN v ELSE f[p]]

\* The node has no Client any more.
Forget(n) ==
  /\ SumFunction(restarts) < MaxRestarts
  /\ restarts' = [restarts EXCEPT ![n] = @ + 1]
  /\ life' = [life EXCEPT ![n] = "off"]
  /\ pool' = [pool EXCEPT ![n] = NewPool]
  /\ peers' = [peers EXCEPT ![n] = {}]
  /\ pending' = [pending EXCEPT ![n] = {}]
  /\ localIP' = [localIP EXCEPT ![n] = NoIP]
  /\ devIP' = [devIP EXCEPT ![n] = NoIP]
  /\ loop' = [loop EXCEPT ![n] = Idle]
  /\ timeouts' = Reset(timeouts, n, 0)
  /\ retries' = Reset(retries, n, 0)
  /\ sending' = Reset(sending, n, 0)
  /\ session' = [session EXCEPT ![n] = {}]
  /\ asked' = [asked EXCEPT ![n] = {}]
  /\ joins' = Reset(joins, n, 0)
  /\ results' = Reset(results, n, 0)
  /\ outcome' = Reset(outcome, n, "none")
  /\ source' = [source EXCEPT ![n] = NoPeer]
  /\ firm' = [firm EXCEPT ![n] = NoPeer]
  /\ UNCHANGED << net, gaveUp, spoiled, told >>

\* The next Start of the same process is about to begin.  A call of Join that
\* has only looked so far is one of the next Client.
Reopen(n) ==
  /\ life[n] = "closed"
  /\ Forget(n)
  /\ ghosts' = [ghosts EXCEPT ![n] = Unanswered(n)]
  /\ call' = [p \in Pairs |-> IF p[1] = n /\ call[p] # "checked" THEN "none" ELSE call[p]]

Crash(n) ==
  /\ n \in MayCrash /\ Running(n)
  /\ Forget(n)
  /\ ghosts' = [ghosts EXCEPT ![n] = {}]
  /\ call' = Reset(call, n, "none")

-----------------------------------------------------------------------------
ReadLoopStep(n) ==
  \/ VerifyFinds(n) \/ VerifyMisses(n) \/ Confirm(n)
  \/ \E m \in Peers : \/ OnRequestIP(n, m) \/ OnOfferIP(n, m)
                      \/ OnAckIP(n, m) \/ OnNackIP(n, m) \/ OnDisconnect(n, m)
                      \/ LoopRequest(n, m)

TimerStep(n, h) ==
  \/ JoinTimeout(n, h) \/ RetryTick(n, h) \/ RetrySend(n, h)
  \/ GhostAsk(n, h) \/ GhostEnds(n, h)

StartStep(n) == Start(n) \/ RequestBootstrap(n) \/ AssignHostIP(n) \/ RecordHostIP(n)

GateStep(n, m) == Ask(n, m) \/ Accept(n, m) \/ Deny(n, m) \/ Drop(n, m)

Next ==
  \E n \in Peers :
    \/ StartStep(n) \/ Leave(n) \/ Close(n) \/ Reopen(n) \/ Crash(n)
    \/ ReadLoopStep(n)
    \/ \E m \in Peers : \/ CheckJoin(n, m) \/ Join(n, m) \/ JoinRequest(n, m) \/ LoopJoin(n, m)
                        \/ TimerStep(n, m) \/ GateStep(n, m)

Spec == Init /\ [][Next]_vars

-----------------------------------------------------------------------------
(***************************************************************************)
(* Safety.                                                                 *)
(***************************************************************************)

\* A pending join always has a timer that will end it, and a retry that will
\* ask again: no interleaving of repeated joins, timeouts and answers leaves a
\* join pending for ever (client.go l.130-141).
PendingIsTimed ==
  \A n, h \in Peers :
    h \in pending[n] =>
      \/ call[<< n, h >>] = "request" \/ loop[n] = Joining(h)
      \/ timeouts[<< n, h >>] > 0 /\ retries[<< n, h >>] + sending[<< n, h >>] > 0

\* Only a node's own farewells cost it its address: while h has not restarted,
\* a node that adopted an offer h made after it had read every NACK and
\* Disconnect of the node, and that has sent h neither since, still holds that
\* very address in h's pool, whoever else is refused, leaves or crashes
\* (client.go l.358-382, "release only the lease held by the authenticated
\* sender").
AddressKept ==
  \A n, h \in Peers :
    firm[n] = h /\ restarts[h] = 0 => pool[h].leases[n] = localIP[n]

\* Two nodes with such an address of the same host, which has not restarted,
\* never record the same one.
NoSharedAddress ==
  \A n, m \in Peers :
    n # m /\ firm[n] # NoPeer /\ firm[n] = firm[m] /\ restarts[firm[n]] = 0
      => localIP[n] # localIP[m]

\* No join is answered twice: the answers never outnumber the attempts, the
\* pending one included, however timeouts race with offers, refusals and
\* departures (client.go l.88-102).
NoSecondResult ==
  \A n, h \in Peers :
    results[<< n, h >>] + (IF h \in pending[n] THEN 1 ELSE 0) <= joins[<< n, h >>]

\* Where SetIP and the look at the interface do not fail, the address a node
\* records is the one on its interface whenever its ReadLoop is between two
\* messages; but for a host whose Start assigns itself an address while the
\* ReadLoop handles an offer: it may end with one of the two on the interface
\* and the other in the record (client.go l.314-355, steambridge_facade.go
\* l.150-162).
RecordedIsConfigured ==
  \A n \in Peers :
    loop[n] = Idle /\ life[n] # "assigned" =>
      \/ localIP[n] = devIP[n]
      \/ /\ Bootstrap[n] = NoPeer
         /\ \/ localIP[n] = HostIP /\ devIP[n] \in Addr
            \/ localIP[n] \in Addr /\ devIP[n] = HostIP

\* A guest leaves no lease behind on a host that runs and has handled its last
\* message, once the guest has told the host that it leaves and has not asked
\* it since (client.go l.176-190, 372-382).  A host that asks the guest for an
\* address, and then refuses a request of the guest for a session, can miss
\* that message.
DepartureFrees ==
  \A n, h \in Peers :
    /\ h \in told[n] /\ life[h] = "on" /\ n \in session[h] /\ net[<< n, h >>] = << >>
    => ~Holds(pool[h], n)

-----------------------------------------------------------------------------
(***************************************************************************)
(* Liveness.  The retries, the ReadLoops and Steam go on, every node is    *)
(* started, and users answer the prompts they get.  The timers of          *)
(* joinTimeout need not fire.                                              *)
(***************************************************************************)
AttemptStep(n, h) == Join(n, h) \/ JoinRequest(n, h) \/ RetryTick(n, h) \/ RetrySend(n, h)

RetryFairness ==
  \A n \in Peers :
    /\ WF_vars(StartStep(n)) /\ WF_vars(ReadLoopStep(n))
    /\ \A m \in Peers \ {n} :
         WF_vars(AttemptStep(n, m)) /\ WF_vars(Ask(n, m) \/ Accept(n, m))

RetrySpec == Spec /\ RetryFairness

\* Without any timeout, a pending join is resolved in the end, unless its node
\* leaves: a retry gets through once the host has accepted the session,
\* whatever is dropped, refused or crashed on the way (client.go l.104-126).
PendingResolves ==
  \A n \in Peers : \A h \in MayJoin[n] \cup MayClick[n] :
    h \in pending[n] ~> h \notin pending[n] \/ ~Up(n)
-----------------------------------------------------------------------------
(***************************************************************************)
(* What comments of the repository say and the program does not do.        *)
(***************************************************************************)

\* "Host side: the guest rejected our offer" (client.go l.359): a NACK frees no
\* address that its sender has taken from this host and uses.
RefusedIsUnused ==
  [][\A n, m \in Peers :
       OnNackIP(n, m) /\ Up(m) /\ source[m] = n => pool[n].leases[m] # localIP[m]]_vars

\* "If we later Join another host as a guest, ActionOfferIP replaces it"
\* (steambridge_facade.go l.155): once Start is done, the interface of a node
\* that took the address of another host no longer has the host's own.
OfferReplacesHostIP ==
  \A n \in Peers :
    life[n] = "on" /\ loop[n] = Idle /\ source[n] # NoPeer => devIP[n] # HostIP

\* "Disconnect broadcasts ActionDisconnect to all known peers so they can clean
\* up their side" (client.go l.176): a host that runs and has handled all that
\* a stopped guest sent it holds no lease for the guest.
StoppedHoldsNothing ==
  \A n, h \in Peers :
    /\ life[n] = "closed" /\ restarts[h] = 0
    /\ life[h] = "on" /\ n \in session[h] /\ net[<< n, h >>] = << >>
    => ~Holds(pool[h], n)
=============================================================================
