----------------------------- MODULE Dashboard ------------------------------
(***************************************************************************)
(* What the user of one running node sees and decides: the session         *)
(* requests and "Join Game" clicks Steam queues in cbridge, the ReadLoop   *)
(* that drains them, the joins and their callbacks, the events app.go      *)
(* makes of those, and the connections map of frontend/pages/index.tsx     *)
(* with its Accept and Reject buttons.                                     *)
(*                                                                         *)
(* JoinHandshake takes a callback with the step that causes it, and Steam  *)
(* asks once.  Here every callback is a step of the goroutine that owes    *)
(* it, and Steam posts a request again while a peer keeps trying.          *)
(***************************************************************************)
EXTENDS Integers, Sequences, Bags, SequencesExt

CONSTANTS
  Peers,
  Friends,    \* the user's Steam friends
  Typed,      \* the hosts the user joins by Steam ID
  Clicked,    \* the friends the user joins from Steam's friends list
  NoPeer,     \* g_pendingJoin when it is empty
  MaxJoins,   \* bound: joins of one host
  MaxPosts,   \* bound: session requests and prompts of one peer on their way
  MaxAnswers  \* bound: answers of the user on their way

ASSUME DashboardAssumption ==
  /\ Friends \subseteq Peers /\ Typed \subseteq Peers /\ Clicked \subseteq Friends
  /\ NoPeer \notin Peers
  /\ MaxJoins \in Nat /\ MaxPosts \in Nat /\ MaxAnswers \in Nat

VARIABLES
  trying,     \* peers whose messages wait for a session
  queue,      \* g_sessionRequests
  slot,       \* g_pendingJoin
  session,    \* peers whose session is accepted
  known,      \* Client.steamIDs
  pending,    \* Client.pendingJoins
  loop,       \* where the ReadLoop stands
  call,       \* call[p]: where the call of JoinLobby for p stands
  timeouts,   \* timeouts[p]: joinTimeout goroutines of p
  owed,       \* bag of events: callbacks of joinTimeouts past the lock
  events,     \* events on their way to the dashboard
  shown,      \* connections
  answering,  \* calls of RespondToJoin on their way
  joins,      \* history: joins[p]: calls of Join so far
  admitted,   \* history: peers the user accepted
  overtaken   \* history: hosts whose result was told before their join was announced

steamVars == << trying, queue, slot, session >>
joinVars == << known, pending, call, timeouts, owed, joins >>
userVars == << shown, answering, admitted, overtaken >>
dashVars == << steamVars, joinVars, loop, events, userVars >>

Event == [type : {"joinRequest", "connected", "failed", "confirm"}, peer : Peers]
Ev(type, p) == [type |-> type, peer |-> p]
Result(p, ok) == Ev(IF ok THEN "connected" ELSE "failed", p)

\* The ReadLoop: polling, draining requests, at the start of Join, or about to
\* call back.
At(label) == [at |-> label, event |-> Ev("failed", NoPeer)]
Joining(p) == [at |-> "joining", event |-> Ev("joinRequest", p)]
Saying(event) == [at |-> "saying", event |-> event]

DashTypeOK ==
  /\ trying \subseteq Peers /\ queue \in Seq(Peers) /\ slot \in Peers \cup {NoPeer}
  /\ session \subseteq Peers /\ known \subseteq Peers /\ pending \subseteq Peers
  /\ loop \in {At("callbacks"), At("drain")} \cup {Joining(p) : p \in Peers}
        \cup {Saying(e) : e \in Event}
  /\ call \in [Peers -> {"none", "joining", "announcing"}]
  /\ timeouts \in [Peers -> Nat]
  /\ IsABag(owed) /\ DOMAIN owed \subseteq Event
  /\ events \in Seq(Event)
  /\ shown \in [Peers -> {"none", "pending", "awaiting", "failed"}]
  /\ answering \subseteq [peer : Peers, accept : BOOLEAN, told : BOOLEAN]
  /\ joins \in [Peers -> Nat] /\ admitted \subseteq Peers /\ overtaken \subseteq Peers

DashInit ==
  /\ trying = {} /\ queue = << >> /\ slot = NoPeer /\ session = {}
  /\ known = {} /\ pending = {} /\ loop = At("callbacks")
  /\ call = [p \in Peers |-> "none"] /\ timeouts = [p \in Peers |-> 0]
  /\ owed = EmptyBag /\ events = << >>
  /\ shown = [p \in Peers |-> "none"] /\ answering = {}
  /\ joins = [p \in Peers |-> 0] /\ admitted = {} /\ overtaken = {}

Emit(event) == events' = Append(events, event)

\* Joins of p that have started their timers and are about to announce
\* themselves: their timeouts have 45 seconds to go.
AboutToSay(p) ==
  (IF call[p] = "announcing" THEN 1 ELSE 0)
    + (IF loop = Saying(Ev("joinRequest", p)) THEN 1 ELSE 0)

\* Whether the event that is told overtakes the announcement of its own join.
Told(event) ==
  overtaken' = IF event.type # "joinRequest" /\ AboutToSay(event.peer) > 0
               THEN overtaken \cup {event.peer} ELSE overtaken

\* Requests of p on their way to the user.
Posted(p) ==
  Len(SelectSeq(queue, LAMBDA q : q = p)) + Len(SelectSeq(events, LAMBDA e : e = Ev("confirm", p)))

-----------------------------------------------------------------------------
(***************************************************************************)
(* Steam.  Its callbacks run inside Bridge_RunCallbacks.                   *)
(***************************************************************************)

\* A peer sends something, or gives up.
Try(p) ==
  /\ p \notin trying \cup session
  /\ trying' = trying \cup {p}
  /\ UNCHANGED << queue, slot, session, joinVars, loop, events, userVars >>

GiveUp(p) ==
  /\ p \in trying
  /\ trying' = trying \ {p}
  /\ UNCHANGED << queue, slot, session, joinVars, loop, events, userVars >>

\* OnSessionRequest, posted again while the peer keeps trying.
Post(p) ==
  /\ loop.at = "callbacks" /\ p \in trying \ session /\ Posted(p) < MaxPosts
  /\ queue' = Append(queue, p)
  /\ UNCHANGED << trying, slot, session, joinVars, loop, events, userVars >>

\* OnGameRichPresenceJoinRequested.
Click(p) ==
  /\ loop.at = "callbacks" /\ p \in Clicked /\ joins[p] < MaxJoins
  /\ slot # p
  /\ slot' = p
  /\ UNCHANGED << trying, queue, session, joinVars, loop, events, userVars >>

-----------------------------------------------------------------------------
(***************************************************************************)
(* Join, called by the ReadLoop or by the dashboard.                       *)
(***************************************************************************)
\* The pending join, the first request, which accepts the session, and the
\* timers; onJoinRequest is called after them.
Begin(p) ==
  /\ known' = known \cup {p} /\ pending' = pending \cup {p}
  /\ session' = session \cup {p} /\ trying' = trying \ {p}
  /\ timeouts' = [timeouts EXCEPT ![p] = @ + 1]

\* handleJoin of the dashboard.
HandleJoin(p) ==
  /\ p \in Typed /\ call[p] = "none" /\ joins[p] < MaxJoins
  /\ shown' = [shown EXCEPT ![p] = "pending"]
  /\ call' = [call EXCEPT ![p] = "joining"]
  /\ joins' = [joins EXCEPT ![p] = @ + 1]
  /\ UNCHANGED << steamVars, known, pending, timeouts, owed, loop, events, answering,
                  admitted, overtaken >>

\* Facade.Join in the goroutine of the dashboard's call.
UserJoin(p) ==
  \/ /\ call[p] = "joining" /\ Begin(p)
     /\ call' = [call EXCEPT ![p] = "announcing"]
     /\ UNCHANGED << queue, slot, owed, joins, loop, events, userVars >>
  \/ /\ call[p] = "announcing" /\ Emit(Ev("joinRequest", p))
     /\ call' = [call EXCEPT ![p] = "none"]
     /\ UNCHANGED << steamVars, known, pending, timeouts, owed, joins, loop, userVars >>

-----------------------------------------------------------------------------
(***************************************************************************)
(* A round of the ReadLoop.                                                *)
(***************************************************************************)
\* Bridge_GetJoinRequest, after the callbacks have run.
TakeSlot ==
  /\ loop.at = "callbacks" /\ slot' = NoPeer
  /\ IF slot # NoPeer
     THEN loop' = Joining(slot) /\ joins' = [joins EXCEPT ![slot] = @ + 1]
     ELSE loop' = At("drain") /\ UNCHANGED joins
  /\ UNCHANGED << trying, queue, session, known, pending, call, timeouts, owed, events,
                  userVars >>

\* onJoinRequest is owed.  Faulty variant: this join is not announced.
Unannounced(p) == At("drain")
Announced(p) == Saying(Ev("joinRequest", p))

\* Join of the friend in the slot; then the loop goes on to the requests.
LoopJoin(p) ==
  /\ loop = Joining(p) /\ Begin(p) /\ loop' = Announced(p)
  /\ UNCHANGED << queue, slot, call, owed, joins, events, userVars >>

Admit(p) ==
  /\ session' = session \cup {p} /\ trying' = trying \ {p}
  /\ known' = known \cup {p}

\* Whom the host admits unasked, and the question about others.  Faulty
\* variants: everyone is let in; no one is asked.
Anyone(p) == TRUE
Trusted(p) == p \in Friends

AskNobody(p) == UNCHANGED events
Ask(p) == Emit(Ev("confirm", p))

\* One session request: friends are admitted, about strangers the user is asked.
Drain(p) ==
  /\ loop.at = "drain" /\ queue # << >> /\ p = Head(queue)
  /\ queue' = Tail(queue)
  /\ IF Trusted(p) THEN Admit(p) /\ UNCHANGED events
     ELSE Ask(p) /\ UNCHANGED << session, trying, known >>
  /\ UNCHANGED << slot, pending, call, timeouts, owed, joins, loop, userVars >>

\* Bridge_Receive finds nothing, or nothing that ends a join.
ReceiveNothing ==
  /\ loop.at = "drain" /\ queue = << >> /\ loop' = At("callbacks")
  /\ UNCHANGED << steamVars, joinVars, events, userVars >>

\* A message of p ends the join of p: an offer that is adopted or not, a
\* refusal, or a Disconnect.  resolveJoin calls back after the lock.
Receive(p) ==
  /\ loop.at = "drain" /\ queue = << >> /\ p \in session \cap pending
  /\ pending' = pending \ {p}
  /\ \/ \E ok \in BOOLEAN : loop' = Saying(Result(p, ok)) /\ UNCHANGED known
     \/ loop' = Saying(Result(p, FALSE)) /\ known' = known \ {p}
  /\ UNCHANGED << steamVars, call, timeouts, owed, joins, events, userVars >>

Say ==
  /\ loop.at = "saying" /\ Emit(loop.event) /\ Told(loop.event)
  /\ loop' = At(IF loop.event.type = "joinRequest" THEN "drain" ELSE "callbacks")
  /\ UNCHANGED << steamVars, joinVars, shown, answering, admitted >>

-----------------------------------------------------------------------------
(***************************************************************************)
(* The goroutines of a join, and packets of the user's programs.           *)
(***************************************************************************)
\* resolveJoin owes a callback if there was a join to resolve.  Faulty variant:
\* the join is forgotten without a word.
Forget(p) == UNCHANGED owed
Resolve(p) == owed' = IF p \in pending THEN owed (+) SetToBag({Result(p, FALSE)}) ELSE owed

JoinTimeout(p) ==
  /\ timeouts[p] > AboutToSay(p) /\ timeouts' = [timeouts EXCEPT ![p] = @ - 1]
  /\ pending' = pending \ {p}
  /\ Resolve(p)
  /\ UNCHANGED << steamVars, known, call, joins, loop, events, userVars >>

TimeoutSays(p) ==
  /\ BagIn(Result(p, FALSE), owed)
  /\ owed' = owed (-) SetToBag({Result(p, FALSE)})
  /\ Emit(Result(p, FALSE)) /\ Told(Result(p, FALSE))
  /\ UNCHANGED << steamVars, known, pending, call, timeouts, joins, loop, shown, answering,
                  admitted >>

\* joinRetry and SendToAll: sending accepts the session.
Sends(p) ==
  /\ p \notin session
  /\ \/ p \in known
     \/ timeouts[p] > 0 /\ p \in pending
  /\ session' = session \cup {p} /\ trying' = trying \ {p}
  /\ UNCHANGED << queue, slot, joinVars, loop, events, userVars >>

-----------------------------------------------------------------------------
(***************************************************************************)
(* The dashboard.                                                          *)
(***************************************************************************)
Deliver ==
  /\ events # << >> /\ events' = Tail(events)
  /\ LET e == Head(events)
         state == CASE e.type = "joinRequest" -> "pending" [] e.type = "connected" -> "none"
                    [] e.type = "failed" -> "failed"       [] e.type = "confirm" -> "awaiting"
     IN  shown' = [shown EXCEPT ![e.peer] = state]
  /\ UNCHANGED << steamVars, joinVars, loop, answering, admitted, overtaken >>

\* Accept or Reject is clicked: handleRespond calls RespondToJoin.
Respond(p) ==
  /\ shown[p] = "awaiting" /\ Cardinality(answering) < MaxAnswers
  /\ \E accept \in BOOLEAN :
       answering' = answering \cup {[peer |-> p, accept |-> accept, told |-> FALSE]}
  /\ UNCHANGED << steamVars, joinVars, loop, events, shown, admitted, overtaken >>

RespondToJoinRequest(a) ==
  /\ a \in answering /\ ~a.told
  /\ answering' = (answering \ {a}) \cup {[a EXCEPT !.told = TRUE]}
  /\ IF a.accept
     THEN Admit(a.peer) /\ admitted' = admitted \cup {a.peer}
     ELSE /\ session' = session \ {a.peer} /\ trying' = trying \ {a.peer}
          /\ UNCHANGED << known, admitted >>
  /\ UNCHANGED << queue, slot, pending, call, timeouts, owed, joins, loop, events, shown,
                  overtaken >>

\* The call is back, and the entry changes.
Answered(a) ==
  /\ a \in answering /\ a.told /\ answering' = answering \ {a}
  /\ shown' = [shown EXCEPT ![a.peer] = IF a.accept THEN "none" ELSE "failed"]
  /\ UNCHANGED << steamVars, joinVars, loop, events, admitted, overtaken >>

-----------------------------------------------------------------------------
LoopStep ==
  \/ TakeSlot \/ ReceiveNothing \/ Say
  \/ \E p \in Peers : LoopJoin(p) \/ Drain(p) \/ Receive(p)

DashNext ==
  \/ LoopStep \/ Deliver
  \/ \E p \in Peers : \/ Try(p) \/ GiveUp(p) \/ Post(p) \/ Click(p)
                      \/ HandleJoin(p) \/ UserJoin(p)
                      \/ JoinTimeout(p) \/ TimeoutSays(p) \/ Sends(p) \/ Respond(p)
  \/ \E a \in answering : RespondToJoinRequest(a) \/ Answered(a)

DashSpec == DashInit /\ [][DashNext]_dashVars

\* Goroutines go on, the ReadLoop polls, events are delivered, and Steam posts
\* the request of a peer that keeps trying again and again (steam_bridge.cpp
\* l.49-51).  Users and peers need not do anything.
DashFairness ==
  /\ WF_dashVars(LoopStep) /\ WF_dashVars(Deliver)
  /\ \A p \in Peers \ Friends : SF_dashVars(Post(p))
  /\ \A p \in Peers : /\ WF_dashVars(UserJoin(p)) /\ WF_dashVars(JoinTimeout(p))
                      /\ WF_dashVars(TimeoutSays(p))

DashFairSpec == DashSpec /\ DashFairness

-----------------------------------------------------------------------------
\* A session is open only with friends, with peers the user accepted, and with
\* hosts the user joins: whatever is posted twice, answered late or sent
\* meanwhile (README.md l.78, client.go l.253-266).
GateHolds == session \subseteq Friends \cup admitted \cup {p \in Peers : joins[p] > 0}

\* Nothing about p is on its way to the dashboard.
Settled(p) ==
  /\ call[p] = "none" /\ loop.event.peer # p
  /\ \A i \in DOMAIN events : events[i].peer # p
  /\ \A e \in BagToSet(owed) : e.peer # p
  /\ \A a \in answering : a.peer # p

\* The first join of a friend is shown as long as it is under way, once the
\* callbacks have reached the dashboard (client.go l.128-141, index.tsx
\* l.88-112).
UnderWayIsShown ==
  \A p \in Friends : p \in pending /\ joins[p] = 1 /\ Settled(p) => shown[p] = "pending"

\* The first join of a friend that has its answer is no longer shown as pending,
\* once the callbacks have reached the dashboard, unless the result was told
\* before the join was announced (client.go l.74-87, 128-141, index.tsx l.88-112).
AnsweredIsNotPending ==
  \A p \in Friends \ overtaken :
    joins[p] = 1 /\ p \notin pending /\ Settled(p) => shown[p] # "pending"

\* A stranger that keeps trying is shown to the user, or got its session
\* (client.go l.253-266, index.tsx l.107-112).
StrangerIsShown ==
  \A p \in Peers \ Friends : p \in trying ~> p \notin trying \/ shown[p] = "awaiting"

-----------------------------------------------------------------------------
(***************************************************************************)
(* What the documentation says and the program does not do.                *)
(***************************************************************************)

\* "Join by SteamID or overlay, with per-connection status (pending / awaiting
\* / connected / failed)" (README.md l.84): a join that has its answer is no
\* longer shown as pending, once the callbacks have reached the dashboard.
StatusIsTheJoins ==
  \A p \in Friends : joins[p] = 1 /\ p \notin pending /\ Settled(p) => shown[p] # "pending"

\* "The same SteamID may be enqueued more than once - Go's peer map dedupes"
\* (steam_bridge.cpp l.51): nobody is asked about a peer whose prompt is open.
AskedOnce ==
  [][\A p \in Peers : shown[p] = "awaiting" /\ Drain(p) => UNCHANGED events]_dashVars
=============================================================================
