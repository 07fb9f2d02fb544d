-------------------------- MODULE DashboardProofs ---------------------------
(***************************************************************************)
(* Theorems of the two parts of frontend/pages/index.tsx.  Dashboard:      *)
(* nobody gets a session the user did not agree to, and the first join of  *)
(* a friend is shown while it is under way, whatever the number of peers,  *)
(* requests, joins and answers on their way.  Panel: it keeps its types,   *)
(* and the dashboard's Start and Stop are never under way at once,         *)
(* whatever the ports, the polls, the bounds and the other callers of Stop *)
(* do.                                                                     *)
(***************************************************************************)
EXTENDS Dashboard, Panel, SequenceTheorems, TLAPS

(***************************************************************************)
(* Those with whom a session may be open.  They only grow in number.       *)
(***************************************************************************)
Joined == {p \in Peers : joins[p] > 0}
Agreed == Friends \cup admitted \cup Joined

(***************************************************************************)
(* A session is opened by admitting a peer, by joining it, or by sending   *)
(* to it: those the node sends to (known, pending) were agreed to before,  *)
(* and a join in the hands of a goroutine has been counted.                *)
(***************************************************************************)
Counted ==
  /\ joins \in [Peers -> Nat]
  /\ call \in [Peers -> {"none", "joining", "announcing"}]
  /\ \A p \in Peers : call[p] # "none" => p \in Joined
  /\ \A p \in Peers : loop = Joining(p) => p \in Joined

GateInv ==
  /\ Counted
  /\ session \subseteq Agreed
  /\ known \subseteq Agreed
  /\ pending \subseteq Agreed

-----------------------------------------------------------------------------
\* Initially nobody has a session.
LEMMA GateInit == DashInit => GateInv
  BY DEF DashInit, GateInv, Counted, At, Joining

\* A step that starts no join, and gives the ReadLoop none, counts none.
LEMMA CountedUntouched ==
  ASSUME Counted, UNCHANGED << joins, call >>,
         \A p \in Peers : loop' = Joining(p) => loop = Joining(p)
  PROVE  Counted'
  BY DEF Counted, Joined

\* One more join of p is one more join.
LEMMA OneMore ==
  ASSUME NEW p \in Peers, joins \in [Peers -> Nat], joins' = [joins EXCEPT ![p] = @ + 1]
  PROVE  /\ joins' \in [Peers -> Nat]
         /\ p \in Joined' /\ Joined \subseteq Joined'
  <1>1. \A q \in Peers : joins[q] \in Nat
    OBVIOUS
  <1>2. /\ joins' \in [Peers -> Nat] /\ joins'[p] = joins[p] + 1
        /\ \A q \in Peers : q # p => joins'[q] = joins[q]
    OBVIOUS
  <1>3. joins'[p] > 0
    BY <1>1, <1>2
  <1>4. p \in Joined'
    BY <1>3 DEF Joined
  <1>5. ASSUME NEW q \in Joined PROVE q \in Joined'
    BY <1>1, <1>2, <1>4 DEF Joined
  <1> QED
    BY <1>2, <1>4, <1>5

\* Only a loop that took a peer from the slot is joining it.
LEMMA LoopLabels ==
  /\ \A p, q : Joining(p) = Joining(q) => p = q
  /\ \A p, e : Saying(e) # Joining(p)
  /\ \A p : At("callbacks") # Joining(p) /\ At("drain") # Joining(p)
  <1>1. \A p : Joining(p).at = "joining" /\ Joining(p).event.peer = p
    BY DEF Joining, Ev
  <1>2. \A e : Saying(e).at = "saying"
    BY DEF Saying
  <1>3. At("callbacks").at = "callbacks" /\ At("drain").at = "drain"
    BY DEF At
  <1> QED
    BY <1>1, <1>2, <1>3

\* A step that opens sessions only with peers that were agreed to, and
\* forgets no agreement, keeps the gate.
LEMMA GateKept ==
  ASSUME GateInv, Counted', Agreed \subseteq Agreed',
         session' \subseteq session \cup Agreed',
         known' \subseteq known \cup Agreed',
         pending' \subseteq pending \cup Agreed'
  PROVE  GateInv'
  BY DEF GateInv

\* A step that leaves joins, admitted, calls and loop alone.
LEMMA GateUntouched ==
  ASSUME GateInv, UNCHANGED << joins, call, admitted >>,
         \A p \in Peers : loop' = Joining(p) => loop = Joining(p),
         session' \subseteq session \cup Agreed,
         known' \subseteq known \cup Agreed,
         pending' \subseteq pending \cup Agreed
  PROVE  GateInv'
  <1>1. Counted'
    BY CountedUntouched DEF GateInv
  <1>2. Agreed' = Agreed
    BY DEF Agreed, Joined
  <1> QED
    BY <1>1, <1>2, GateKept

-----------------------------------------------------------------------------
(***************************************************************************)
(* The steps, by who takes them.                                           *)
(***************************************************************************)

\* Steam, the timers, the callbacks and the dashboard's entries open nothing.
LEMMA OthersStep ==
  ASSUME GateInv, NEW p \in Peers,
         \/ Try(p) \/ GiveUp(p) \/ Post(p) \/ Click(p)
         \/ JoinTimeout(p) \/ TimeoutSays(p) \/ Respond(p)
  PROVE  GateInv'
  <1>1. /\ UNCHANGED << joins, call, admitted, loop, session, known >>
        /\ pending' \subseteq pending
    BY DEF Try, GiveUp, Post, Click, JoinTimeout, TimeoutSays, Respond, steamVars,
           joinVars, userVars
  <1> QED
    BY <1>1, GateUntouched

\* What the node sends goes to peers it knows or waits for.
LEMMA SendsStep ==
  ASSUME GateInv, NEW p \in Peers, Sends(p)
  PROVE  GateInv'
  <1>1. p \in Agreed
    BY DEF Sends, GateInv
  <1>2. /\ UNCHANGED << joins, call, admitted, loop, known, pending >>
        /\ session' = session \cup {p}
    BY DEF Sends, joinVars, userVars
  <1> QED
    BY <1>1, <1>2, GateUntouched

\* The dashboard's join is counted before it begins.
LEMMA UserJoinStep ==
  ASSUME GateInv, NEW p \in Peers, HandleJoin(p) \/ UserJoin(p)
  PROVE  GateInv'
  <1>1. CASE HandleJoin(p)
    <2>1. /\ joins' = [joins EXCEPT ![p] = @ + 1] /\ call' = [call EXCEPT ![p] = "joining"]
          /\ UNCHANGED << loop, session, known, pending, admitted >>
      BY <1>1 DEF HandleJoin, steamVars
    <2>2. joins' \in [Peers -> Nat] /\ p \in Joined' /\ Joined \subseteq Joined'
      BY <2>1, OneMore DEF GateInv, Counted
    <2>3. Counted'
      BY <2>1, <2>2 DEF GateInv, Counted
    <2>4. Agreed \subseteq Agreed'
      BY <2>1, <2>2 DEF Agreed
    <2> QED
      BY <2>1, <2>3, <2>4, GateKept
  <1>2. CASE UserJoin(p)
    <2>1. p \in Joined /\ p \in Agreed
      BY <1>2 DEF UserJoin, GateInv, Counted, Agreed
    <2>2. /\ UNCHANGED << joins, admitted, loop >>
          /\ \E s \in {"announcing", "none"} : call' = [call EXCEPT ![p] = s]
      BY <1>2 DEF UserJoin, Begin, userVars
    <2>3. /\ session' \subseteq session \cup {p} /\ known' \subseteq known \cup {p}
          /\ pending' \subseteq pending \cup {p}
      BY <1>2 DEF UserJoin, Begin, steamVars
    <2>4. Joined' = Joined /\ Agreed' = Agreed
      BY <2>2 DEF Joined, Agreed
    <2>5. Counted'
      BY <2>1, <2>2, <2>4 DEF GateInv, Counted
    <2> QED
      BY <2>1, <2>3, <2>4, <2>5, GateKept
  <1> QED
    BY <1>1, <1>2

\* The ReadLoop joins the peer it took from the slot, and admits friends.
LEMMA LoopKeepsGate ==
  ASSUME GateInv, LoopStep
  PROVE  GateInv'
  <1>1. CASE TakeSlot
    <2>1. /\ UNCHANGED << session, known, pending, call, admitted >>
          /\ \/ loop' = At("drain") /\ UNCHANGED joins
             \/ loop' = Joining(slot) /\ joins' = [joins EXCEPT ![slot] = @ + 1]
      BY <1>1 DEF TakeSlot, userVars
    <2>2. CASE loop' = At("drain") /\ UNCHANGED joins
      BY <2>1, <2>2, LoopLabels, GateUntouched
    <2>3. CASE loop' = Joining(slot) /\ joins' = [joins EXCEPT ![slot] = @ + 1]
      <3>1. CASE slot \in Peers
        <4>1. joins' \in [Peers -> Nat] /\ slot \in Joined' /\ Joined \subseteq Joined'
          BY <2>3, <3>1, OneMore DEF GateInv, Counted
        <4>2. Counted'
          BY <2>1, <2>3, <4>1, LoopLabels DEF GateInv, Counted
        <4>3. Agreed \subseteq Agreed'
          BY <2>1, <4>1 DEF Agreed
        <4> QED
          BY <2>1, <4>2, <4>3, GateKept
      <3>2. CASE slot \notin Peers
        <4>1. joins' = joins
          BY <2>3, <3>2 DEF GateInv, Counted
        <4> QED
          BY <2>1, <2>3, <3>2, <4>1, LoopLabels, GateUntouched
      <3> QED
        BY <3>1, <3>2
    <2> QED
      BY <2>1, <2>2, <2>3
  <1>2. CASE ReceiveNothing
    BY <1>2, LoopLabels, GateUntouched DEF ReceiveNothing, steamVars, joinVars, userVars
  <1>3. CASE Say
    <2>1. loop' = At("drain") \/ loop' = At("callbacks")
      BY <1>3 DEF Say
    <2>2. UNCHANGED << joins, call, admitted, session, known, pending >>
      BY <1>3 DEF Say, steamVars, joinVars, userVars
    <2> QED
      BY <2>1, <2>2, LoopLabels, GateUntouched
  <1>4. ASSUME NEW p \in Peers, LoopJoin(p) PROVE GateInv'
    <2>1. p \in Agreed
      BY <1>4 DEF LoopJoin, GateInv, Counted, Agreed
    <2>2. /\ UNCHANGED << joins, call, admitted >>
          /\ session' \subseteq session \cup {p} /\ known' \subseteq known \cup {p}
          /\ pending' \subseteq pending \cup {p}
      BY <1>4 DEF LoopJoin, Begin, userVars
    <2>3. loop' = Saying(Ev("joinRequest", p))
      BY <1>4 DEF LoopJoin, Announced
    <2> QED
      BY <2>1, <2>2, <2>3, LoopLabels, GateUntouched
  <1>5. ASSUME NEW p \in Peers, Drain(p) PROVE GateInv'
    <2>1. UNCHANGED << joins, call, admitted, loop, pending >>
      BY <1>5 DEF Drain, userVars
    <2>2. session' \subseteq session \cup Friends /\ known' \subseteq known \cup Friends
      BY <1>5 DEF Drain, Trusted, Admit
    <2> QED
      BY <2>1, <2>2, GateUntouched DEF Agreed
  <1>6. ASSUME NEW p \in Peers, Receive(p) PROVE GateInv'
    <2>1. /\ UNCHANGED << joins, call, admitted, session >>
          /\ known' \subseteq known /\ pending' \subseteq pending
      BY <1>6 DEF Receive, steamVars, userVars
    <2>2. \E e : loop' = Saying(e)
      BY <1>6 DEF Receive
    <2> QED
      BY <2>1, <2>2, LoopLabels, GateUntouched
  <1> QED
    BY <1>1, <1>2, <1>3, <1>4, <1>5, <1>6 DEF LoopStep

\* The user's answer admits a peer, or closes its session.
LEMMA AnswerStep ==
  ASSUME GateInv, NEW a \in answering, RespondToJoinRequest(a) \/ Answered(a)
  PROVE  GateInv'
  <1>1. UNCHANGED << joins, call, loop, pending >>
    BY DEF RespondToJoinRequest, Answered, steamVars, joinVars
  <1>2. Counted'
    BY <1>1, CountedUntouched DEF GateInv
  <1>3. CASE RespondToJoinRequest(a) /\ a.accept
    <2>1. /\ admitted' = admitted \cup {a.peer}
          /\ session' = session \cup {a.peer} /\ known' = known \cup {a.peer}
      BY <1>3 DEF RespondToJoinRequest, Admit
    <2> QED
      BY <1>1, <1>2, <2>1, GateKept DEF Agreed, Joined
  <1>4. CASE ~(RespondToJoinRequest(a) /\ a.accept)
    <2>1. UNCHANGED << admitted, known >> /\ session' \subseteq session
      BY <1>4 DEF RespondToJoinRequest, Answered, steamVars, joinVars
    <2> QED
      BY <1>1, <2>1, GateUntouched
  <1> QED
    BY <1>3, <1>4

\* Every step keeps the gate.
LEMMA GateStep == GateInv /\ [DashNext]_dashVars => GateInv'
  <1> SUFFICES ASSUME GateInv, [DashNext]_dashVars PROVE GateInv'
    OBVIOUS
  <1>1. CASE \E p \in Peers : \/ Try(p) \/ GiveUp(p) \/ Post(p) \/ Click(p)
                              \/ HandleJoin(p) \/ UserJoin(p)
                              \/ JoinTimeout(p) \/ TimeoutSays(p) \/ Sends(p) \/ Respond(p)
    BY <1>1, OthersStep, SendsStep, UserJoinStep
  <1>2. CASE \E a \in answering : RespondToJoinRequest(a) \/ Answered(a)
    BY <1>2, AnswerStep
  <1>3. CASE Deliver \/ UNCHANGED dashVars
    <2>1. /\ UNCHANGED << joins, call, admitted, loop, session, known, pending >>
      BY <1>3 DEF Deliver, dashVars, steamVars, joinVars, userVars
    <2> QED
      BY <2>1, GateUntouched
  <1> QED
    BY <1>1, <1>2, <1>3, LoopKeepsGate DEF DashNext

\* A session is open only with friends, with peers the user accepted, and with
\* hosts the user joins (client.go l.253-266, steam_bridge.cpp l.44-52, 160-170).
THEOREM GateAlwaysHolds == DashSpec => []GateHolds
  <1>1. GateInv => GateHolds
    BY DEF GateInv, GateHolds, Agreed, Joined
  <1> QED
    BY <1>1, GateInit, GateStep, PTL DEF DashSpec

-----------------------------------------------------------------------------
(***************************************************************************)
(* The first join of a friend.  A friend is let in unasked, so its entry   *)
(* never waits for an answer; before its first join nothing is said of it. *)
(***************************************************************************)
OnTheWay == ToSet(events)
Owing == BagToSet(owed)

\* What the dashboard is still to hear about p.
About(p) == {e \in OnTheWay \cup Owing \cup {loop.event} : e.peer = p}

NotAsked(p) ==
  /\ Ev("confirm", p) \notin OnTheWay /\ shown[p] # "awaiting"
  /\ \A a \in answering : a.peer # p

NothingYet(p) == joins[p] = 0 => p \notin pending /\ call[p] = "none" /\ About(p) = {}

\* A join of p has been counted and has still to begin.
Awaited(p) == call[p] = "joining" \/ loop = Joining(p)

\* Until the first join has ended, all that is said of p is that it is joined,
\* and that is shown or on its way.
FirstJoin(p) ==
  joins[p] = 1 =>
    /\ ~(call[p] = "joining" /\ loop = Joining(p))
    /\ Awaited(p) => p \notin pending
    /\ Awaited(p) \/ p \in pending =>
         /\ \A e \in About(p) : e.type = "joinRequest"
         /\ shown[p] = "pending" \/ loop.event.peer = p \/ Ev("joinRequest", p) \in OnTheWay

Entry(p) == NotAsked(p) /\ NothingYet(p) /\ FirstJoin(p)

\* The ReadLoop never asks the user by itself.
LoopStates ==
  {At("callbacks"), At("drain")} \cup {Joining(p) : p \in Peers}
    \cup {Saying(e) : e \in {f \in Event : f.type # "confirm"}}

EntryTypes ==
  /\ events \in Seq(Event)
  /\ shown \in [Peers -> {"none", "pending", "awaiting", "failed"}]
  /\ slot \in Peers \cup {NoPeer}
  /\ loop \in LoopStates
  /\ answering \subseteq [peer : Peers, accept : BOOLEAN, told : BOOLEAN]

EntryInv ==
  /\ GateInv /\ EntryTypes
  /\ \A p \in Friends : Entry(p)


-----------------------------------------------------------------------------
(***************************************************************************)
(* What bags and queues hold after a step.                                 *)
(***************************************************************************)
LEMMA BagElements ==
  ASSUME NEW B, NEW x
  PROVE  /\ BagToSet(B (+) SetToBag({x})) \subseteq BagToSet(B) \cup {x}
         /\ BagToSet(B (-) SetToBag({x})) \subseteq BagToSet(B)
  BY DEF BagToSet, SetToBag, (+), (-)

LEMMA EventQueue ==
  ASSUME events \in Seq(Event)
  PROVE  /\ \A e \in Event : Emit(e) => /\ events' \in Seq(Event)
                                        /\ OnTheWay' = OnTheWay \cup {e}
         /\ events # << >> =>
              /\ Head(events) \in OnTheWay /\ Head(events) \in Event
              /\ Tail(events) \in Seq(Event)
              /\ ToSet(Tail(events)) \subseteq OnTheWay
              /\ OnTheWay \subseteq ToSet(Tail(events)) \cup {Head(events)}
  <1>1. ASSUME NEW e \in Event, Emit(e)
        PROVE  events' \in Seq(Event) /\ OnTheWay' = OnTheWay \cup {e}
    <2>1. /\ events' = Append(events, e) /\ events' \in Seq(Event)
          /\ Len(events) \in Nat /\ Len(events') = Len(events) + 1
          /\ \A i \in 1 .. Len(events) : events'[i] = events[i]
          /\ events'[Len(events) + 1] = e
      BY <1>1, AppendProperties, LenProperties DEF Emit
    <2>2. DOMAIN events = 1 .. Len(events) /\ DOMAIN events' = 1 .. Len(events')
      BY <2>1, LenProperties
    <2> QED
      BY <2>1, <2>2 DEF OnTheWay, ToSet
  <1>2. ASSUME events # << >>
        PROVE  /\ Head(events) \in OnTheWay /\ Head(events) \in Event
               /\ Tail(events) \in Seq(Event)
               /\ ToSet(Tail(events)) \subseteq OnTheWay
               /\ OnTheWay \subseteq ToSet(Tail(events)) \cup {Head(events)}
    <2>. PICK t : t = Tail(events)
      OBVIOUS
    <2>1. /\ Len(events) \in Nat \ {0} /\ t \in Seq(Event) /\ Len(t) = Len(events) - 1
          /\ \A i \in 1 .. Len(events) - 1 : t[i] = events[i + 1]
          /\ Head(events) = events[1]
      BY <1>2, EmptySeq, HeadTailProperties, LenProperties
    <2>2. DOMAIN events = 1 .. Len(events) /\ DOMAIN t = 1 .. Len(t)
      BY <2>1, LenProperties
    <2>3. Head(events) \in OnTheWay /\ Head(events) \in Event
      BY <2>1, <2>2, ElementOfSeq DEF OnTheWay, ToSet
    <2>4. ToSet(t) \subseteq OnTheWay
      BY <2>1, <2>2 DEF OnTheWay, ToSet
    <2>5. ASSUME NEW i \in 1 .. Len(events) PROVE events[i] \in ToSet(t) \cup {Head(events)}
      <3>1. CASE i = 1
        BY <2>1, <3>1
      <3>2. CASE i # 1
        <4>1. i - 1 \in 1 .. Len(t) /\ t[i - 1] = events[i]
          BY <2>1, <3>2
        <4> QED
          BY <2>2, <4>1 DEF ToSet
      <3> QED
        BY <3>1, <3>2
    <2> QED
      BY <2>1, <2>2, <2>3, <2>4, <2>5 DEF OnTheWay, ToSet
  <1> QED
    BY <1>1, <1>2

\* The events of the model are events.
LEMMA EventKinds ==
  ASSUME NEW p \in Peers
  PROVE  /\ \A t \in {"joinRequest", "connected", "failed", "confirm"} :
              Ev(t, p) \in Event /\ Ev(t, p).type = t /\ Ev(t, p).peer = p
         /\ \A ok \in BOOLEAN : /\ Result(p, ok) \in Event /\ Result(p, ok).peer = p
                                /\ Result(p, ok).type \in {"connected", "failed"}
         /\ \A e \in Event : e.peer = p => e = Ev(e.type, p)
  BY DEF Event, Ev, Result

LEMMA LoopEvents ==
  /\ \A e : Saying(e).at = "saying" /\ Saying(e).event = e
  /\ \A l : At(l).at = l /\ At(l).event.peer = NoPeer
  /\ \A p : /\ Joining(p).at = "joining"
            /\ Joining(p).event.peer = p /\ Joining(p).event.type = "joinRequest"
  BY DEF Saying, At, Joining, Ev

\* What the loop has in hand where it stands.
LEMMA LoopHolds ==
  ASSUME loop \in LoopStates
  PROVE  /\ loop.at = "saying" => loop.event \in Event /\ loop.event.type # "confirm"
         /\ loop.at \in {"callbacks", "drain"} => loop.event.peer = NoPeer
  BY LoopEvents DEF LoopStates

\* The types of what an entry depends on.
LEMMA EntryTypeStep ==
  ASSUME EntryTypes, [DashNext]_dashVars
  PROVE  EntryTypes'
  <1>1. CASE UNCHANGED << events, shown, slot, loop, answering >>
    BY <1>1 DEF EntryTypes, LoopStates
  <1>2. ASSUME NEW e \in Event, Emit(e), UNCHANGED << shown, slot, answering >>,
               loop' \in LoopStates
        PROVE  EntryTypes'
    BY <1>2, EventQueue DEF EntryTypes, LoopStates
  <1>3. CASE TakeSlot \/ ReceiveNothing
    <2>1. UNCHANGED << events, shown, answering >> /\ slot' \in {slot, NoPeer}
      BY <1>3 DEF TakeSlot, ReceiveNothing, steamVars, userVars
    <2>2. loop' \in LoopStates
      BY <1>3 DEF TakeSlot, ReceiveNothing, LoopStates, EntryTypes
    <2> QED
      BY <2>1, <2>2 DEF EntryTypes, LoopStates
  <1>4. CASE Say
    <2>1. loop.event \in Event /\ Emit(loop.event) /\ UNCHANGED << shown, slot, answering >>
      BY <1>4, LoopHolds DEF Say, EntryTypes, steamVars, userVars
    <2>2. loop' \in LoopStates
      BY <1>4 DEF Say, LoopStates
    <2> QED
      BY <1>2, <2>1, <2>2
  <1>5. ASSUME NEW p \in Peers, LoopJoin(p) \/ Receive(p) PROVE EntryTypes'
    <2>1. PICK e \in {f \in Event : f.type # "confirm"} : loop' = Saying(e)
      BY <1>5, EventKinds DEF LoopJoin, Announced, Receive
    <2>2. UNCHANGED << events, shown, slot, answering >>
      BY <1>5 DEF LoopJoin, Receive, userVars, steamVars
    <2> QED
      BY <2>1, <2>2 DEF EntryTypes, LoopStates
  <1>6. ASSUME NEW p \in Peers, Drain(p) PROVE EntryTypes'
    <2>1. /\ UNCHANGED << shown, slot, loop, answering >>
          /\ UNCHANGED events \/ Emit(Ev("confirm", p))
      BY <1>6 DEF Drain, Ask, userVars
    <2> QED
      BY <1>1, <1>2, <2>1, EventKinds DEF EntryTypes
  <1>7. ASSUME NEW p \in Peers, UserJoin(p) \/ TimeoutSays(p) PROVE EntryTypes'
    <2>1. /\ UNCHANGED << shown, slot, loop, answering >>
          /\ UNCHANGED events \/ Emit(Ev("joinRequest", p)) \/ Emit(Result(p, FALSE))
      BY <1>7 DEF UserJoin, TimeoutSays, userVars, steamVars
    <2>2. loop' \in LoopStates
      BY <2>1 DEF EntryTypes
    <2> QED
      BY <1>1, <1>2, <2>1, <2>2, EventKinds
  <1>8. ASSUME NEW p \in Peers, HandleJoin(p) PROVE EntryTypes'
    BY <1>8 DEF HandleJoin, steamVars, EntryTypes, LoopStates
  <1>9. ASSUME NEW p \in Peers, Click(p) PROVE EntryTypes'
    BY <1>9 DEF Click, joinVars, userVars, EntryTypes, LoopStates
  <1>10. ASSUME NEW p \in Peers,
                Try(p) \/ GiveUp(p) \/ Post(p) \/ JoinTimeout(p) \/ Sends(p)
         PROVE  UNCHANGED << events, shown, slot, loop, answering >>
    BY <1>10 DEF Try, GiveUp, Post, JoinTimeout, Sends, userVars, steamVars
  <1>11. CASE Deliver
    <2>1. events # << >> /\ events' = Tail(events) /\ UNCHANGED << slot, loop, answering >>
      BY <1>11 DEF Deliver, steamVars
    <2>2. Head(events) \in Event /\ events' \in Seq(Event)
      BY <2>1, EventQueue DEF EntryTypes
    <2>3. PICK state \in {"none", "pending", "awaiting", "failed"} :
            shown' = [shown EXCEPT ![Head(events).peer] = state]
      <3>1. Head(events).type \in {"joinRequest", "connected", "failed", "confirm"}
        BY <2>2 DEF Event
      <3> QED
        BY <1>11, <3>1 DEF Deliver
    <2> QED
      BY <2>1, <2>2, <2>3 DEF EntryTypes, LoopStates
  <1>12. ASSUME NEW p \in Peers, Respond(p) PROVE EntryTypes'
    <2>1. PICK accept \in BOOLEAN :
            answering' = answering \cup {[peer |-> p, accept |-> accept, told |-> FALSE]}
      BY <1>12 DEF Respond
    <2>2. UNCHANGED << events, shown, slot, loop >>
      BY <1>12 DEF Respond, steamVars
    <2>3. [peer |-> p, accept |-> accept, told |-> FALSE]
            \in [peer : Peers, accept : BOOLEAN, told : BOOLEAN]
      OBVIOUS
    <2>4. answering' \subseteq [peer : Peers, accept : BOOLEAN, told : BOOLEAN]
      BY <2>1, <2>3, Zenon DEF EntryTypes
    <2> QED
      BY <2>2, <2>4 DEF EntryTypes, LoopStates
  <1>13. ASSUME NEW a \in answering, RespondToJoinRequest(a) PROVE EntryTypes'
    <2>1. [a EXCEPT !.told = TRUE] \in [peer : Peers, accept : BOOLEAN, told : BOOLEAN]
      BY DEF EntryTypes
    <2> QED
      BY <1>13, <2>1 DEF RespondToJoinRequest, EntryTypes, LoopStates
  <1>14. ASSUME NEW a \in answering, Answered(a) PROVE EntryTypes'
    BY <1>14 DEF Answered, steamVars, EntryTypes, LoopStates
  <1>15. UNCHANGED dashVars => UNCHANGED << events, shown, slot, loop, answering >>
    BY DEF dashVars, userVars, steamVars
  <1>16. UNCHANGED << events, shown, slot, loop, answering >> => EntryTypes'
    BY <1>1
  <1> HIDE DEF EntryTypes
  <1> QED
    BY <1>3, <1>4, <1>5, <1>6, <1>7, <1>8, <1>9, <1>10, <1>11, <1>12, <1>13, <1>14, <1>15,
       <1>16 DEF DashNext, LoopStep

-----------------------------------------------------------------------------
(***************************************************************************)
(* What each step leaves of an entry.                                      *)
(***************************************************************************)

\* A step that does nothing to p but let what is said of it go its way.
LEMMA EntryUntouched ==
  ASSUME NEW p, Entry(p),
         joins'[p] = joins[p], call'[p] = call[p], shown'[p] = shown[p],
         p \in pending' => p \in pending,
         loop' = Joining(p) => loop = Joining(p),
         About(p)' \subseteq About(p),
         Ev("confirm", p) \in OnTheWay' => Ev("confirm", p) \in OnTheWay,
         Ev("joinRequest", p) \in OnTheWay => Ev("joinRequest", p) \in OnTheWay',
         loop.event.peer = p /\ loop.event.type = "joinRequest" =>
           loop'.event.peer = p \/ Ev("joinRequest", p) \in OnTheWay',
         \A a \in answering' : a.peer = p => \E b \in answering : b.peer = p
  PROVE  Entry(p)'
  <1>1. NotAsked(p)'
    BY DEF Entry, NotAsked
  <1>2. NothingYet(p)'
    BY DEF Entry, NothingYet
  <1>3. Awaited(p)' => Awaited(p)
    BY DEF Awaited
  <1>4. ASSUME joins'[p] = 1 PROVE FirstJoin(p)'
    <2>1. /\ ~(call'[p] = "joining" /\ loop' = Joining(p))
          /\ Awaited(p)' => p \notin pending'
      BY <1>3, <1>4 DEF Entry, FirstJoin
    <2>2. ASSUME Awaited(p)' \/ p \in pending'
          PROVE  /\ \A e \in About(p)' : e.type = "joinRequest"
                 /\ \/ shown'[p] = "pending" \/ loop'.event.peer = p
                    \/ Ev("joinRequest", p) \in OnTheWay'
      <3>1. /\ \A e \in About(p) : e.type = "joinRequest"
            /\ \/ shown[p] = "pending" \/ loop.event.peer = p
               \/ Ev("joinRequest", p) \in OnTheWay
        BY <1>3, <1>4, <2>2 DEF Entry, FirstJoin
      <3>2. loop.event.peer = p => loop.event.type = "joinRequest"
        BY <3>1 DEF About
      <3> QED
        BY <3>1, <3>2
    <2> QED
      BY <2>1, <2>2 DEF FirstJoin
  <1>5. FirstJoin(p)'
    BY <1>4 DEF FirstJoin
  <1> QED
    BY <1>1, <1>2, <1>5 DEF Entry

\* A step that leaves the events and the loop alone as well.
LEMMA EntrySame ==
  ASSUME NEW p, Entry(p),
         joins'[p] = joins[p], call'[p] = call[p], shown'[p] = shown[p],
         p \in pending' => p \in pending, UNCHANGED << loop, owed, events >>,
         \A a \in answering' : a.peer = p => \E b \in answering : b.peer = p
  PROVE  Entry(p)'
  <1>1. OnTheWay' = OnTheWay /\ About(p)' = About(p)
    BY DEF OnTheWay, Owing, About
  <1> QED
    BY <1>1, EntryUntouched

\* A step that says something to the dashboard, of another peer, or of p what
\* was to be said.
LEMMA EntrySays ==
  ASSUME NEW p \in Peers, Entry(p), events \in Seq(Event), UNCHANGED << joins, shown, answering >>,
         call'[p] = call[p], p \in pending' => p \in pending,
         NEW e \in Event, Emit(e), e.peer # p \/ (e \in About(p) /\ e.type # "confirm"),
         Owing' \subseteq Owing,
         \/ UNCHANGED loop
         \/ loop' # Joining(p) /\ loop'.event.peer # p /\ (loop.event.peer = p => loop.event = e)
  PROVE  Entry(p)'
  <1>1. OnTheWay' = OnTheWay \cup {e}
    BY EventQueue
  <1>2. About(p)' \subseteq About(p)
    BY <1>1 DEF About
  <1>3. Ev("confirm", p) \in OnTheWay' => Ev("confirm", p) \in OnTheWay
    BY <1>1, EventKinds
  <1>4. loop.event.peer = p /\ loop.event.type = "joinRequest" =>
           loop'.event.peer = p \/ Ev("joinRequest", p) \in OnTheWay'
    <2>1. CASE loop.event.peer = p /\ loop.event.type = "joinRequest" /\ loop.event = e
      <3>1. e = Ev("joinRequest", p)
        BY <2>1, EventKinds
      <3> QED
        BY <1>1, <3>1
    <2> QED
      BY <2>1
  <1>5. loop' = Joining(p) => loop = Joining(p)
    OBVIOUS
  <1> QED
    BY <1>1, <1>2, <1>3, <1>4, <1>5, EntryUntouched

\* Steam, the peers and the senders.
LEMMA EntryOthers ==
  ASSUME NEW p, Entry(p), NEW q \in Peers,
         Try(q) \/ GiveUp(q) \/ Post(q) \/ Click(q) \/ Sends(q)
  PROVE  Entry(p)'
  <1>1. UNCHANGED << joins, call, shown, pending, loop, owed, events, answering >>
    BY DEF Try, GiveUp, Post, Click, Sends, joinVars, userVars
  <1> QED
    BY <1>1, EntrySame

\* A join is counted and shown, or begins, or is announced.
LEMMA EntryHandleJoin ==
  ASSUME NEW p \in Peers, Entry(p), GateInv, EntryTypes, NEW q \in Peers, HandleJoin(q)
  PROVE  Entry(p)'
  <1>1. /\ shown' = [shown EXCEPT ![q] = "pending"] /\ call[q] = "none"
        /\ call' = [call EXCEPT ![q] = "joining"]
        /\ joins' = [joins EXCEPT ![q] = @ + 1]
        /\ UNCHANGED << pending, owed, loop, events, answering >>
    BY DEF HandleJoin
  <1>2. /\ joins \in [Peers -> Nat] /\ call \in [Peers -> {"none", "joining", "announcing"}]
        /\ shown \in [Peers -> {"none", "pending", "awaiting", "failed"}]
    BY DEF GateInv, Counted, EntryTypes
  <1>3. CASE q # p
    <2>1. joins'[p] = joins[p] /\ call'[p] = call[p] /\ shown'[p] = shown[p]
      BY <1>1, <1>2, <1>3
    <2> QED
      BY <1>1, <2>1, EntrySame
  <1>4. CASE q = p
    <2>1. /\ joins'[p] = joins[p] + 1 /\ joins[p] \in Nat
          /\ call'[p] = "joining" /\ shown'[p] = "pending"
      BY <1>1, <1>2, <1>4
    <2>2. OnTheWay' = OnTheWay /\ About(p)' = About(p)
      BY <1>1 DEF OnTheWay, Owing, About
    <2>3. NotAsked(p)'
      BY <1>1, <2>1, <2>2 DEF Entry, NotAsked
    <2>4. NothingYet(p)'
      BY <2>1 DEF NothingYet
    <2>5. ASSUME joins'[p] = 1 PROVE FirstJoin(p)'
      <3>1. p \notin pending' /\ About(p)' = {}
        BY <1>1, <2>1, <2>2, <2>5 DEF Entry, NothingYet
      <3>2. loop' # Joining(p)
        BY <3>1, LoopEvents DEF About
      <3> QED
        BY <2>1, <3>1, <3>2 DEF FirstJoin
    <2>6. FirstJoin(p)'
      BY <2>5 DEF FirstJoin
    <2> QED
      BY <2>3, <2>4, <2>6 DEF Entry
  <1> QED
    BY <1>3, <1>4

LEMMA EntryUserJoin ==
  ASSUME NEW p \in Peers, Entry(p), GateInv, EntryTypes, NEW q \in Peers, UserJoin(q)
  PROVE  Entry(p)'
  <1>1. call \in [Peers -> {"none", "joining", "announcing"}]
    BY DEF GateInv, Counted
  <1>2. CASE call[q] = "joining" /\ Begin(q)
    <2>1. /\ call' = [call EXCEPT ![q] = "announcing"] /\ pending' = pending \cup {q}
          /\ UNCHANGED << joins, shown, owed, loop, events, answering >>
      BY <1>2 DEF UserJoin, Begin, userVars
    <2>2. CASE q # p
      BY <1>1, <2>1, <2>2, EntrySame
    <2>3. CASE q = p
      <3>1. OnTheWay' = OnTheWay /\ About(p)' = About(p) /\ call'[p] = "announcing"
        BY <1>1, <2>1, <2>3 DEF OnTheWay, Owing, About
      <3>2. NotAsked(p)' /\ joins[p] # 0
        BY <1>2, <2>1, <2>3, <3>1 DEF Entry, NotAsked, NothingYet
      <3>3. ASSUME joins'[p] = 1 PROVE FirstJoin(p)'
        <4>1. /\ Awaited(p) /\ loop # Joining(p)
          BY <1>2, <2>1, <2>3, <3>3 DEF Entry, FirstJoin, Awaited
        <4>2. /\ \A e \in About(p) : e.type = "joinRequest"
              /\ shown[p] = "pending" \/ loop.event.peer = p \/ Ev("joinRequest", p) \in OnTheWay
          BY <2>1, <3>3, <4>1 DEF Entry, FirstJoin
        <4> QED
          BY <2>1, <3>1, <4>1, <4>2 DEF FirstJoin, Awaited
      <3> QED
        BY <2>1, <3>2, <3>3 DEF Entry, NothingYet, FirstJoin
    <2> QED
      BY <2>2, <2>3
  <1>3. CASE call[q] = "announcing" /\ Emit(Ev("joinRequest", q))
    <2>1. /\ call' = [call EXCEPT ![q] = "none"]
          /\ UNCHANGED << joins, pending, shown, owed, loop, answering >>
      BY <1>3 DEF UserJoin, Begin, userVars
    <2>2. Ev("joinRequest", q) \in Event /\ Ev("joinRequest", q).peer = q
      BY EventKinds
    <2>3. Owing' = Owing /\ events \in Seq(Event)
      BY <2>1 DEF Owing, EntryTypes
    <2>4. CASE q # p
      <3>1. call'[p] = call[p]
        BY <1>1, <2>1, <2>4
      <3> QED
        BY <1>3, <2>1, <2>2, <2>3, <2>4, <3>1, EntrySays
    <2>5. CASE q = p
      <3>1. /\ OnTheWay' = OnTheWay \cup {Ev("joinRequest", p)}
            /\ About(p)' \subseteq About(p) \cup {Ev("joinRequest", p)}
        BY <1>3, <2>1, <2>2, <2>3, <2>5, EventQueue DEF About
      <3>2. NotAsked(p)' /\ joins[p] # 0
        BY <1>3, <2>1, <2>5, <3>1, EventKinds DEF Entry, NotAsked, NothingYet
      <3>3. call'[p] = "none"
        BY <1>1, <2>1, <2>5
      <3>4. ASSUME joins'[p] = 1 PROVE FirstJoin(p)'
        <4>1. Awaited(p)' => Awaited(p)
          BY <2>1, <3>3 DEF Awaited
        <4>2. Awaited(p)' => p \notin pending'
          BY <2>1, <3>4, <4>1 DEF Entry, FirstJoin
        <4>3. ASSUME Awaited(p)' \/ p \in pending', NEW e \in About(p)'
              PROVE  e.type = "joinRequest"
          BY <2>1, <3>1, <3>4, <4>1, <4>3, EventKinds DEF Entry, FirstJoin
        <4>4. Ev("joinRequest", p) \in OnTheWay'
          BY <3>1
        <4> QED
          BY <3>3, <4>2, <4>3, <4>4 DEF FirstJoin
      <3> QED
        BY <2>1, <3>2, <3>4 DEF Entry, NothingYet, FirstJoin
    <2> QED
      BY <2>4, <2>5
  <1> QED
    BY <1>2, <1>3 DEF UserJoin

\* The ReadLoop takes the friend from the slot, and joins it.
LEMMA EntryTakeSlot ==
  ASSUME NEW p \in Peers, Entry(p), GateInv, EntryTypes, TakeSlot
  PROVE  Entry(p)'
  <1>1. /\ UNCHANGED << pending, call, owed, events, shown, answering >>
        /\ loop.event.peer = NoPeer /\ NoPeer # p
        /\ joins \in [Peers -> Nat]
    BY LoopHolds, DashboardAssumption
    DEF TakeSlot, userVars, EntryTypes, GateInv, Counted
  <1>2. OnTheWay' = OnTheWay /\ Owing' = Owing
    BY <1>1 DEF OnTheWay, Owing
  <1>3. CASE ~(slot = p /\ slot # NoPeer)
    <2>1. joins'[p] = joins[p] /\ loop'.event.peer # p /\ loop' # Joining(p)
      BY <1>1, <1>3, LoopEvents, LoopLabels DEF TakeSlot
    <2>2. About(p)' \subseteq About(p)
      BY <1>2, <2>1 DEF About
    <2> QED
      BY <1>1, <1>2, <2>1, <2>2, EntryUntouched
  <1>4. CASE slot = p /\ slot # NoPeer
    <2>1. joins'[p] = joins[p] + 1 /\ joins[p] \in Nat /\ loop' = Joining(p)
      BY <1>1, <1>4 DEF TakeSlot
    <2>2. NotAsked(p)' /\ NothingYet(p)'
      BY <1>1, <1>2, <2>1 DEF Entry, NotAsked, NothingYet
    <2>3. ASSUME joins'[p] = 1 PROVE FirstJoin(p)'
      <3>1. p \notin pending' /\ call'[p] # "joining" /\ About(p) = {}
        BY <1>1, <2>1, <2>3 DEF Entry, NothingYet
      <3>2. loop'.event.peer = p /\ loop'.event.type = "joinRequest"
        BY <2>1, LoopEvents
      <3>3. \A e \in About(p)' : e.type = "joinRequest"
        BY <1>2, <3>1, <3>2 DEF About
      <3> QED
        BY <3>1, <3>2, <3>3 DEF FirstJoin
    <2> QED
      BY <2>2, <2>3 DEF Entry, FirstJoin
  <1> QED
    BY <1>3, <1>4

LEMMA EntryLoopJoin ==
  ASSUME NEW p \in Peers, Entry(p), NEW q \in Peers, LoopJoin(q)
  PROVE  Entry(p)'
  <1>1. /\ loop = Joining(q) /\ loop' = Saying(Ev("joinRequest", q))
        /\ pending' = pending \cup {q}
        /\ UNCHANGED << call, owed, joins, events, shown, answering >>
    BY DEF LoopJoin, Begin, Announced, userVars
  <1>2. /\ loop'.event = loop.event /\ loop.event.peer = q /\ loop' # Joining(p)
    BY <1>1, LoopEvents, LoopLabels DEF Joining
  <1>3. OnTheWay' = OnTheWay /\ About(p)' = About(p)
    BY <1>1, <1>2 DEF OnTheWay, Owing, About
  <1>4. CASE q # p
    BY <1>1, <1>2, <1>3, <1>4, EntryUntouched
  <1>5. CASE q = p
    <2>1. NotAsked(p)' /\ joins[p] # 0
      BY <1>1, <1>2, <1>3, <1>5 DEF Entry, NotAsked, NothingYet, About
    <2>2. ASSUME joins'[p] = 1 PROVE FirstJoin(p)'
      <3>1. call[p] # "joining" /\ \A e \in About(p) : e.type = "joinRequest"
        BY <1>1, <1>5, <2>2 DEF Entry, FirstJoin, Awaited
      <3> QED
        BY <1>1, <1>2, <1>3, <1>5, <3>1 DEF FirstJoin, Awaited
    <2> QED
      BY <1>1, <2>1, <2>2 DEF Entry, NothingYet, FirstJoin
  <1> QED
    BY <1>4, <1>5

\* A join ends, by a message or by the timeout: it was the friend's turn to be
\* joined no more.
LEMMA EntryEnds ==
  ASSUME NEW p, Entry(p), p \in pending, pending' = pending \ {p},
         UNCHANGED << joins, call, shown, events, answering >>, loop' = loop \/ loop' # Joining(p)
  PROVE  Entry(p)'
  <1>1. OnTheWay' = OnTheWay /\ joins[p] # 0
    BY DEF OnTheWay, Entry, NothingYet
  <1>2. NotAsked(p)' /\ NothingYet(p)'
    BY <1>1 DEF Entry, NotAsked, NothingYet
  <1>3. ASSUME joins'[p] = 1 PROVE ~Awaited(p)'
    <2>1. ~Awaited(p)
      BY <1>3 DEF Entry, FirstJoin
    <2> QED
      BY <2>1 DEF Awaited
  <1>4. FirstJoin(p)'
    BY <1>3 DEF FirstJoin, Awaited
  <1> QED
    BY <1>2, <1>4 DEF Entry

\* A session request of a friend is answered without a question.
LEMMA EntryDrain ==
  ASSUME NEW p \in Friends, Entry(p), EntryTypes, NEW q \in Peers, Drain(q)
  PROVE  Entry(p)'
  <1>1. UNCHANGED << joins, shown, answering, call, pending, owed, loop >> /\ p \in Peers
    BY DashboardAssumption DEF Drain, userVars
  <1>2. CASE UNCHANGED events
    BY <1>1, <1>2, EntrySame
  <1>3. CASE ~UNCHANGED events
    <2>1. q # p /\ Emit(Ev("confirm", q))
      BY <1>3 DEF Drain, Trusted, Ask
    <2>2. Owing' = Owing /\ events \in Seq(Event)
      BY <1>1 DEF Owing, EntryTypes
    <2> QED
      BY <1>1, <2>1, <2>2, EntrySays, EventKinds
  <1> QED
    BY <1>2, <1>3

LEMMA EntryReceive ==
  ASSUME NEW p \in Peers, Entry(p), EntryTypes,
         ReceiveNothing \/ \E q \in Peers : Receive(q)
  PROVE  Entry(p)'
  <1>1. /\ UNCHANGED << joins, call, shown, owed, events, answering >>
        /\ loop.event.peer # p
    BY LoopHolds, DashboardAssumption
    DEF ReceiveNothing, Receive, joinVars, userVars, EntryTypes
  <1>2. OnTheWay' = OnTheWay /\ Owing' = Owing
    BY <1>1 DEF OnTheWay, Owing
  <1>3. CASE ReceiveNothing
    <2>1. UNCHANGED pending /\ loop' # Joining(p) /\ loop'.event.peer # p
      BY <1>3, LoopLabels, LoopEvents, DashboardAssumption DEF ReceiveNothing, joinVars
    <2>2. About(p)' \subseteq About(p)
      BY <1>2, <2>1 DEF About
    <2> QED
      BY <1>1, <1>2, <2>1, <2>2, EntryUntouched
  <1>4. ASSUME NEW q \in Peers, Receive(q) PROVE Entry(p)'
    <2>1. /\ q \in pending /\ pending' = pending \ {q}
          /\ \E ok \in BOOLEAN : loop' = Saying(Result(q, ok))
      BY <1>4 DEF Receive
    <2>2. loop' # Joining(p) /\ loop'.event.peer = q
      BY <2>1, LoopLabels, LoopEvents, EventKinds
    <2>3. CASE q # p
      <3>1. About(p)' \subseteq About(p)
        BY <1>2, <2>2, <2>3 DEF About
      <3> QED
        BY <1>1, <1>2, <2>1, <2>2, <2>3, <3>1, EntryUntouched
    <2>4. CASE q = p
      BY <1>1, <2>1, <2>2, <2>4, EntryEnds
    <2> QED
      BY <2>3, <2>4
  <1> QED
    BY <1>3, <1>4

LEMMA EntrySay ==
  ASSUME NEW p \in Peers, Entry(p), EntryTypes, Say
  PROVE  Entry(p)'
  <1>1. /\ loop.event \in Event /\ loop.event.type # "confirm"
        /\ UNCHANGED << joins, call, pending, owed, shown, answering >>
        /\ Emit(loop.event)
    BY LoopHolds DEF Say, EntryTypes, joinVars, userVars
  <1>2. loop' # Joining(p) /\ loop'.event.peer # p
    BY LoopLabels, LoopEvents, DashboardAssumption DEF Say
  <1>3. loop.event.peer # p \/ loop.event \in About(p)
    BY DEF About
  <1>4. Owing' = Owing /\ events \in Seq(Event)
    BY <1>1 DEF Owing, EntryTypes
  <1> QED
    BY <1>1, <1>2, <1>3, <1>4, EntrySays

LEMMA EntryTimeout ==
  ASSUME NEW p \in Peers, Entry(p), EntryTypes, NEW q \in Peers,
         JoinTimeout(q) \/ TimeoutSays(q)
  PROVE  Entry(p)'
  <1>1. UNCHANGED << joins, call, shown, loop, answering >>
    BY DEF JoinTimeout, TimeoutSays, userVars
  <1>2. CASE JoinTimeout(q)
    <2>1. /\ pending' = pending \ {q} /\ UNCHANGED events
          /\ q \in pending => owed' = owed (+) SetToBag({Result(q, FALSE)})
          /\ q \notin pending => owed' = owed
      BY <1>2 DEF JoinTimeout, Resolve
    <2>2. CASE q \notin pending
      BY <1>1, <2>1, <2>2, EntrySame
    <2>3. CASE q \in pending /\ q = p
      BY <1>1, <2>1, <2>3, EntryEnds
    <2>4. CASE q \in pending /\ q # p
      <3>1. Owing' = BagToSet(owed (+) SetToBag({Result(q, FALSE)}))
        BY <2>1, <2>4 DEF Owing
      <3>2. Owing' \subseteq Owing \cup {Result(q, FALSE)}
        BY <3>1, BagElements, Zenon DEF Owing
      <3>3. OnTheWay' = OnTheWay
        BY <2>1 DEF OnTheWay
      <3>4. Result(q, FALSE).peer # p
        BY <2>4 DEF Result, Ev
      <3>5. loop'.event = loop.event
        BY <1>1
      <3>6. About(p)' \subseteq About(p)
        BY <3>2, <3>3, <3>4, <3>5 DEF About
      <3> QED
        BY <1>1, <2>1, <2>4, <3>3, <3>6, EntryUntouched
    <2> QED
      BY <2>2, <2>3, <2>4
  <1>3. CASE TimeoutSays(q)
    <2>1. /\ Result(q, FALSE) \in Owing /\ Emit(Result(q, FALSE)) /\ UNCHANGED pending
          /\ owed' = owed (-) SetToBag({Result(q, FALSE)})
      BY <1>3 DEF TimeoutSays, BagIn, Owing, BagToSet
    <2>2. Owing' \subseteq Owing /\ events \in Seq(Event)
      BY <2>1, BagElements DEF Owing, EntryTypes
    <2>3. /\ Result(q, FALSE) \in Event /\ Result(q, FALSE).type # "confirm"
          /\ Result(q, FALSE).peer # p \/ Result(q, FALSE) \in About(p)
      BY <2>1, EventKinds DEF About
    <2> QED
      BY <1>1, <2>1, <2>2, <2>3, EntrySays
  <1> QED
    BY <1>2, <1>3

\* The dashboard hears an event.
LEMMA EntryDeliver ==
  ASSUME NEW p \in Peers, Entry(p), EntryTypes, Deliver
  PROVE  Entry(p)'
  <1>. PICK e : e = Head(events)
    OBVIOUS
  <1>1. /\ UNCHANGED << joins, call, pending, owed, loop, answering >>
        /\ e \in OnTheWay /\ e \in Event
        /\ OnTheWay' \subseteq OnTheWay /\ OnTheWay \subseteq OnTheWay' \cup {e}
    BY EventQueue DEF Deliver, joinVars, EntryTypes, OnTheWay
  <1>2. About(p)' \subseteq About(p)
    BY <1>1 DEF About, Owing
  <1>3. PICK state :
          /\ shown' = [shown EXCEPT ![e.peer] = state]
          /\ e.type = "joinRequest" => state = "pending"
          /\ e.type # "confirm" => state # "awaiting"
    <2>1. e.type \in {"joinRequest", "connected", "failed", "confirm"}
      BY <1>1 DEF Event
    <2>. DEFINE new == CASE e.type = "joinRequest" -> "pending" [] e.type = "connected" -> "none"
                         [] e.type = "failed" -> "failed" [] e.type = "confirm" -> "awaiting"
    <2>2. shown' = [shown EXCEPT ![e.peer] = new]
      BY DEF Deliver
    <2>3. /\ e.type = "joinRequest" => new = "pending"
          /\ e.type # "confirm" => new # "awaiting"
      BY <2>1
    <2> QED
      BY <2>2, <2>3
  <1>4. shown \in [Peers -> {"none", "pending", "awaiting", "failed"}]
    BY DEF EntryTypes
  <1>5. CASE e.peer # p
    <2>1. shown'[p] = shown[p] /\ e # Ev("joinRequest", p)
      BY <1>3, <1>4, <1>5, EventKinds
    <2> QED
      BY <1>1, <1>2, <2>1, EntryUntouched
  <1>6. CASE e.peer = p
    <2>1. shown'[p] = state /\ e \in About(p) /\ e.type # "confirm"
      BY <1>1, <1>3, <1>4, <1>6, EventKinds DEF About, Entry, NotAsked
    <2>2. NotAsked(p)' /\ joins[p] # 0
      BY <1>1, <1>3, <2>1 DEF Entry, NotAsked, NothingYet
    <2>3. ASSUME joins'[p] = 1 PROVE FirstJoin(p)'
      <3>1. Awaited(p)' = Awaited(p)
        BY <1>1 DEF Awaited
      <3>2. ASSUME Awaited(p)' \/ p \in pending'
            PROVE  (\A f \in About(p)' : f.type = "joinRequest") /\ shown'[p] = "pending"
        <4>1. \A f \in About(p) : f.type = "joinRequest"
          BY <1>1, <2>3, <3>1, <3>2 DEF Entry, FirstJoin
        <4> QED
          BY <1>2, <1>3, <2>1, <4>1
      <3> QED
        BY <1>1, <2>3, <3>1, <3>2 DEF Entry, FirstJoin
    <2> QED
      BY <1>1, <2>2, <2>3 DEF Entry, NothingYet, FirstJoin
  <1> QED
    BY <1>5, <1>6

\* The user answers for others.
LEMMA EntryAnswers ==
  ASSUME NEW p \in Peers, Entry(p), EntryTypes,
         \/ \E q \in Peers : Respond(q)
         \/ \E a \in answering : RespondToJoinRequest(a) \/ Answered(a)
  PROVE  Entry(p)'
  <1>1. ASSUME NEW q \in Peers, Respond(q) PROVE Entry(p)'
    <2>1. PICK accept \in BOOLEAN :
            answering' = answering \cup {[peer |-> q, accept |-> accept, told |-> FALSE]}
      BY <1>1 DEF Respond
    <2>2. UNCHANGED << joins, call, pending, owed, loop, events, shown >> /\ q # p
      BY <1>1 DEF Respond, joinVars, Entry, NotAsked
    <2>3. \A a \in answering' : a.peer = p => a \in answering
      BY <2>1, <2>2
    <2> QED
      BY <2>2, <2>3, EntrySame
  <1>2. ASSUME NEW a \in answering, RespondToJoinRequest(a) PROVE Entry(p)'
    <2>1. [a EXCEPT !.told = TRUE].peer = a.peer /\ a.peer # p
      BY DEF EntryTypes, Entry, NotAsked
    <2>2. UNCHANGED << joins, call, pending, owed, loop, events, shown >>
      BY <1>2 DEF RespondToJoinRequest
    <2>3. \A b \in answering' : b.peer = p => b \in answering
      BY <1>2, <2>1 DEF RespondToJoinRequest
    <2> QED
      BY <2>2, <2>3, EntrySame
  <1>3. ASSUME NEW a \in answering, Answered(a) PROVE Entry(p)'
    <2>1. /\ UNCHANGED << joins, call, pending, owed, loop, events >>
          /\ answering' = answering \ {a} /\ a.peer # p
      BY <1>3 DEF Answered, joinVars, Entry, NotAsked
    <2>2. shown'[p] = shown[p]
      BY <1>3, <2>1 DEF Answered, EntryTypes
    <2> QED
      BY <2>1, <2>2, EntrySame
  <1> QED
    BY <1>1, <1>2, <1>3

-----------------------------------------------------------------------------
\* Initially nothing is said of anybody.
LEMMA EntryInit == DashInit => EntryInv
  <1> SUFFICES ASSUME DashInit PROVE EntryInv
    OBVIOUS
  <1>1. GateInv
    BY GateInit
  <1>2. EntryTypes
    BY EmptySeq DEF DashInit, EntryTypes, LoopStates
  <1>3. ASSUME NEW p \in Friends PROVE Entry(p)
    <2>1. p \in Peers /\ p # NoPeer
      BY DashboardAssumption
    <2>2. OnTheWay = {} /\ Owing = {}
      BY DEF DashInit, OnTheWay, Owing, ToSet, BagToSet, EmptyBag, SetToBag
    <2>3. loop.event.peer = NoPeer
      BY LoopEvents DEF DashInit
    <2>4. About(p) = {}
      BY <2>1, <2>2, <2>3 DEF About
    <2>5. joins[p] = 0 /\ call[p] = "none" /\ shown[p] = "none"
      BY <2>1 DEF DashInit
    <2> QED
      BY <2>2, <2>4, <2>5 DEF DashInit, Entry, NotAsked, NothingYet, FirstJoin
  <1> QED
    BY <1>1, <1>2, <1>3 DEF EntryInv

LEMMA EntryStep == EntryInv /\ [DashNext]_dashVars => EntryInv'
  <1> SUFFICES ASSUME EntryInv, [DashNext]_dashVars PROVE EntryInv'
    OBVIOUS
  <1>1. GateInv' /\ EntryTypes' /\ GateInv /\ EntryTypes
    BY GateStep, EntryTypeStep DEF EntryInv
  <1>2. ASSUME NEW p \in Friends PROVE Entry(p)'
    <2>1. Entry(p) /\ p \in Peers
      BY DashboardAssumption DEF EntryInv
    <2>2. CASE LoopStep
      BY <1>1, <2>1, <2>2, EntryTakeSlot, EntryLoopJoin, EntryDrain, EntryReceive, EntrySay
      DEF LoopStep
    <2>3. CASE UNCHANGED dashVars
      <3>1. UNCHANGED << joins, call, pending, owed, loop, events, shown, answering >>
        BY <2>3 DEF dashVars, joinVars, userVars
      <3> QED
        BY <2>1, <3>1, EntrySame
    <2> QED
      BY <1>1, <2>1, <2>2, <2>3, EntryOthers, EntryHandleJoin, EntryUserJoin, EntryTimeout,
         EntryDeliver, EntryAnswers DEF DashNext
  <1> QED
    BY <1>1, <1>2 DEF EntryInv

\* The first join of a friend is shown as long as it is under way, once the
\* callbacks have reached the dashboard: whatever Steam, the timers, other
\* joins and the user's answers do meanwhile (client.go l.128-141, index.tsx
\* l.88-112).
THEOREM FirstJoinIsShown == DashSpec => []UnderWayIsShown
  <1>1. EntryInv => UnderWayIsShown
    <2> SUFFICES ASSUME EntryInv, NEW p \in Friends, p \in pending, joins[p] = 1, Settled(p)
                 PROVE  shown[p] = "pending"
      BY DEF UnderWayIsShown
    <2>1. loop.event.peer # p /\ Ev("joinRequest", p) \notin OnTheWay
      BY DEF Settled, OnTheWay, ToSet, Ev
    <2> QED
      BY <2>1 DEF EntryInv, Entry, FirstJoin
  <1> QED
    BY <1>1, EntryInit, EntryStep, PTL DEF DashSpec

-----------------------------------------------------------------------------
(***************************************************************************)
(* The panel.                                                              *)
(***************************************************************************)
\* The panel's own state of a refresh and of an edit.
RefreshState == [on : BOOLEAN, left : SUBSET DOMAIN Nothing, got : View]
EditState == [at : {"none", "add", "remove", "read", "show"}, ports : SUBSET Ports]

\* What has been read has the types of what is displayed.
LEMMA ViewTypes ==
  /\ Nothing \in View
  /\ DOMAIN Nothing = {"running", "fw", "ports", "peers"}
  /\ NewRouter \in Settings
  /\ Idle \in RefreshState /\ Begun \in RefreshState
  /\ Quiet \in EditState
  /\ \A at \in {"add", "remove", "read"} : Edit(at) \in EditState
  BY DEF Nothing, View, NewRouter, Settings, Idle, Begun, RefreshState, Quiet, EditState, Edit

LEMMA ActualTypes ==
  ASSUME running \in BOOLEAN, router \in Settings
  PROVE  Actual \in View
  BY DEF Actual, Settings, View

\* A refresh that reads one more field has the type of a refresh.
LEMMA ReadTypes ==
  ASSUME NEW s \in RefreshState, NEW field \in DOMAIN Nothing,
         running \in BOOLEAN, router \in Settings
  PROVE  [on |-> TRUE, left |-> s.left \ {field},
          got |-> [s.got EXCEPT ![field] = Actual[field]]] \in RefreshState
<1>1. [s.got EXCEPT ![field] = Actual[field]] \in View
  BY ActualTypes, ViewTypes DEF View, RefreshState
<1>2. s.left \ {field} \in SUBSET DOMAIN Nothing
  BY DEF RefreshState
<1>3. QED
  BY <1>1, <1>2 DEF RefreshState

\* A configured router has the type of its settings.
LEMMA ConfigureTypes ==
  ASSUME router \in Settings, NEW s \in Settings, Configure(s)
  PROVE  router' \in Settings
  BY DEF Configure

(***************************************************************************)
(* Why calls stay apart: the panel is busy exactly as long as a handler is *)
(* at work, and a call, like the refresh after it, belongs to the handler  *)
(* that waits for it.  Polls change neither.  Once the window is closed    *)
(* the handlers are gone, and no call is made any more.                    *)
(***************************************************************************)
HandlersFollow ==
  /\ CallsApart
  /\ Open => /\ busy = (button # "none")
             /\ startCall # "none" => button = "start"
             /\ stopCall # "none" => button = "stop"
             /\ refresh[Handler].on => button = "refresh"

PanelInv == PanelTypeOK /\ HandlersFollow

-----------------------------------------------------------------------------
\* Initially nothing is under way.
LEMMA PanelInitInv == PanelInit => PanelInv
<1> SUFFICES ASSUME PanelInit PROVE PanelInv
  OBVIOUS
<1>1. \A r \in Slots : refresh[r] = Idle
  BY DEF PanelInit
<1>2. HandlersFollow
  BY <1>1 DEF PanelInit, HandlersFollow, CallsApart, Slots, Idle
<1>3. refresh \in [Slots -> RefreshState] /\ edits \in [Ports -> EditState]
  BY ViewTypes DEF PanelInit
<1>4. acts \in 0 .. MaxActs /\ deaths \in 0 .. MaxDeaths
  BY PanelAssumption DEF PanelInit
<1>5. PanelTypeOK
  BY <1>3, <1>4, ViewTypes DEF PanelInit, PanelTypeOK, RefreshState, EditState
<1>6. QED
  BY <1>2, <1>5 DEF PanelInv

\* The user has a bounded number of acts.
LEMMA ActTypes ==
  ASSUME acts \in 0 .. MaxActs, deaths \in 0 .. MaxDeaths, Act
  PROVE  acts' \in 0 .. MaxActs /\ deaths' \in 0 .. MaxDeaths
  BY PanelAssumption DEF Act

\* Start and Stop, whoever calls them, and the engine that ends by itself.
CallStep ==
  \/ HandleStart \/ StartBridge \/ HandleStop \/ StopBridge \/ EngineDies \/ OwnStopEnds
  \/ Shutdown

\* The types, of the engine and of the dashboard.
EngineTypes ==
  /\ running \in BOOLEAN /\ router \in Settings /\ exists \in BOOLEAN
  /\ ownStop \in BOOLEAN /\ crossed \in BOOLEAN
  /\ closing \in {"no", "called", "draining", "done"}
  /\ startCall \in {"none", "claimed", "routed", "live", "ok", "error"}
  /\ stopCall \in {"none", "called", "draining", "ok"}

ShownTypes ==
  /\ button \in {"none", "start", "stop", "refresh"} /\ busy \in BOOLEAN
  /\ display \in View
  /\ refresh \in [Slots -> RefreshState]
  /\ toggles \subseteq BOOLEAN
  /\ edits \in [Ports -> EditState]

BoundTypes == acts \in 0 .. MaxActs /\ deaths \in 0 .. MaxDeaths

LEMMA PanelTypeParts == PanelTypeOK <=> EngineTypes /\ ShownTypes /\ BoundTypes
  BY DEF PanelTypeOK, EngineTypes, ShownTypes, BoundTypes, RefreshState, EditState

LEMMA PartsNext == EngineTypes' /\ ShownTypes' /\ BoundTypes' => PanelTypeOK'
  BY DEF PanelTypeOK, EngineTypes, ShownTypes, BoundTypes, RefreshState, EditState

LEMMA ShownSame == ShownTypes /\ UNCHANGED shownVars => ShownTypes'
  BY DEF ShownTypes, shownVars

LEMMA EngineSame == EngineTypes /\ UNCHANGED engineVars => EngineTypes'
  BY DEF EngineTypes, engineVars, stopVars

LEMMA BoundSame == BoundTypes /\ UNCHANGED << acts, deaths >> => BoundTypes'
  BY DEF BoundTypes

LEMMA CallTypes ==
  ASSUME PanelTypeOK, CallStep
  PROVE  PanelTypeOK'
<1>1. EngineTypes /\ ShownTypes /\ BoundTypes
  BY PanelTypeParts
<1>2. CASE HandleStart
  <2>1. EngineTypes'
    BY <1>1, <1>2 DEF HandleStart, EngineTypes
  <2>2. ShownTypes'
    BY <1>1, <1>2 DEF HandleStart, Disabled, ShownTypes
  <2>3. BoundTypes'
    BY <1>1, <1>2, ActTypes DEF HandleStart, BoundTypes
  <2>4. QED
    BY <2>1, <2>2, <2>3, PartsNext
<1>3. CASE StartBridge
  <2>1. EngineTypes'
    BY <1>1, <1>3, ViewTypes DEF StartBridge, EngineTypes, stopVars
  <2>2. QED
    BY <1>1, <1>3, <2>1, ShownSame, BoundSame, PartsNext DEF StartBridge
<1>4. CASE HandleStop
  <2>1. EngineTypes'
    BY <1>1, <1>4 DEF HandleStop, EngineTypes, stopVars
  <2>2. ShownTypes'
    BY <1>1, <1>4 DEF HandleStop, Disabled, ShownTypes
  <2>3. BoundTypes'
    BY <1>1, <1>4, ActTypes DEF HandleStop, BoundTypes
  <2>4. QED
    BY <2>1, <2>2, <2>3, PartsNext
<1>5. CASE StopBridge
  <2>1. EngineTypes'
    BY <1>1, <1>5 DEF StopBridge, EngineTypes, stopVars
  <2>2. QED
    BY <1>1, <1>5, <2>1, ShownSame, BoundSame, PartsNext DEF StopBridge
<1>6. CASE EngineDies
  <2>1. EngineTypes'
    BY <1>1, <1>6 DEF EngineDies, EngineTypes
  <2>2. BoundTypes'
    BY <1>1, <1>6, PanelAssumption DEF EngineDies, BoundTypes
  <2>3. QED
    BY <1>1, <1>6, <2>1, <2>2, ShownSame, PartsNext DEF EngineDies
<1>7. CASE OwnStopEnds
  <2>1. EngineTypes'
    BY <1>1, <1>7 DEF OwnStopEnds, EngineTypes
  <2>2. QED
    BY <1>1, <1>7, <2>1, ShownSame, BoundSame, PartsNext DEF OwnStopEnds
<1>8. CASE Shutdown
  <2>1. EngineTypes'
    BY <1>1, <1>8 DEF Shutdown, EngineTypes
  <2>2. QED
    BY <1>1, <1>8, <2>1, ShownSame, BoundSame, PartsNext DEF Shutdown
<1>9. QED
  BY <1>2, <1>3, <1>4, <1>5, <1>6, <1>7, <1>8 DEF CallStep

LEMMA CallFollows ==
  ASSUME PanelTypeOK, HandlersFollow, CallStep
  PROVE  HandlersFollow'
<1>1. CASE HandleStart
  BY <1>1 DEF HandleStart, Act, Open, Disabled, HandlersFollow, CallsApart
<1>2. CASE StartBridge
  BY <1>2 DEF StartBridge, HandlersFollow, CallsApart, Open, shownVars, stopVars
<1>3. CASE HandleStop
  BY <1>3 DEF HandleStop, Act, Open, Disabled, HandlersFollow, CallsApart, stopVars
<1>4. CASE StopBridge
  BY <1>4 DEF StopBridge, HandlersFollow, CallsApart, Open, shownVars, stopVars
<1>5. CASE EngineDies \/ OwnStopEnds
  <2>1. UNCHANGED << startCall, stopCall, button, busy, refresh, closing >>
    BY <1>5 DEF EngineDies, OwnStopEnds, shownVars
  <2>2. QED
    BY <2>1 DEF HandlersFollow, CallsApart, Open
<1>6. CASE Shutdown
  <2>1. UNCHANGED << startCall, stopCall >> /\ closing' # "no"
    BY <1>6 DEF Shutdown
  <2>2. QED
    BY <2>1 DEF HandlersFollow, CallsApart, Open
<1>7. QED
  BY <1>1, <1>2, <1>3, <1>4, <1>5, <1>6 DEF CallStep

\* The window closes: no handler is left.
LEMMA CloseStep ==
  ASSUME PanelTypeOK, HandlersFollow, CloseWindow
  PROVE  PanelTypeOK' /\ HandlersFollow'
<1>1. refresh' \in [Slots -> RefreshState]
  BY ViewTypes DEF CloseWindow
<1>2. PanelTypeOK'
  BY <1>1, ViewTypes DEF CloseWindow, PanelTypeOK, RefreshState
<1>3. HandlersFollow'
  BY DEF CloseWindow, HandlersFollow, CallsApart, Open
<1>4. QED
  BY <1>2, <1>3

\* The router learns of one more peer.
LEMMA PeerSendsStep ==
  ASSUME PanelTypeOK, HandlersFollow, NEW p \in Senders, PeerSends(p)
  PROVE  PanelTypeOK' /\ HandlersFollow'
<1>1. EngineTypes /\ ShownTypes /\ BoundTypes
  BY PanelTypeParts
<1>2. PanelTypeOK'
  <2>1. [router EXCEPT !.peers = @ \cup {p}] \in Settings
    BY <1>1 DEF EngineTypes, Settings
  <2>2. EngineTypes'
    BY <1>1, <2>1 DEF PeerSends, EngineTypes, stopVars
  <2>3. QED
    BY <1>1, <2>2, ShownSame, BoundSame, PartsNext DEF PeerSends
<1>3. HandlersFollow'
  BY DEF PeerSends, HandlersFollow, CallsApart, Open, shownVars, stopVars
<1>4. QED
  BY <1>2, <1>3

\* The handler goes on to its refresh, or ends.
LEMMA ReturnStep ==
  ASSUME PanelTypeOK, HandlersFollow, CallReturns
  PROVE  PanelTypeOK' /\ HandlersFollow'
<1>1. Handler \in Slots
  BY DEF Slots
<1>2. /\ startCall' = "none" /\ stopCall' = "none"
      /\ button # "refresh" /\ ~refresh[Handler].on
  BY DEF CallReturns, HandlersFollow, CallsApart
<1>3. button' \in {"refresh", "none"} /\ busy' = (button' # "none")
  BY DEF CallReturns, Onward, Disabled
<1>4. /\ refresh' \in [Slots -> RefreshState]
      /\ refresh'[Handler] = IF button' = "refresh" THEN Begun ELSE refresh[Handler]
  BY <1>1, ViewTypes DEF CallReturns, PanelTypeOK, RefreshState
<1>5. HandlersFollow'
  BY <1>2, <1>3, <1>4 DEF HandlersFollow, CallsApart
<1>6. UNCHANGED << running, router, exists, stopVars, display, toggles, edits, acts, deaths >>
  BY DEF CallReturns
<1>7. PanelTypeOK'
  BY <1>2, <1>3, <1>4, <1>6 DEF PanelTypeOK, RefreshState, stopVars
<1>8. QED
  BY <1>5, <1>7

\* Polls, and the refresh of the handler.
LEMMA RefreshStep ==
  ASSUME PanelTypeOK, HandlersFollow, NEW r \in Slots, Poll(r) \/ Read(r) \/ Apply(r)
  PROVE  PanelTypeOK' /\ HandlersFollow'
<1>1. Handler \in Slots /\ refresh \in [Slots -> RefreshState]
  BY DEF Slots, PanelTypeOK, RefreshState
<1>2. UNCHANGED << engineVars, toggles, edits, acts, deaths >>
  BY DEF Poll, Read, Apply
<1>3. CASE Poll(r)
  <2>1. r # Handler /\ refresh' = [refresh EXCEPT ![r] = Begun]
    BY <1>3, PanelAssumption DEF Poll
  <2>2. refresh' \in [Slots -> RefreshState] /\ refresh'[Handler] = refresh[Handler]
    BY <1>1, <2>1, ViewTypes
  <2>3. UNCHANGED << button, busy, display >>
    BY <1>3 DEF Poll
  <2>4. PanelTypeOK'
    BY <1>2, <2>2, <2>3 DEF PanelTypeOK, RefreshState, engineVars, stopVars
  <2>5. HandlersFollow'
    BY <1>2, <2>2, <2>3 DEF HandlersFollow, CallsApart, Open, engineVars, stopVars
  <2>6. QED
    BY <2>4, <2>5
<1>4. CASE Read(r)
  <2>1. PICK field \in refresh[r].left :
          refresh' = [refresh EXCEPT ![r] =
                        [on |-> TRUE, left |-> @.left \ {field},
                         got |-> [@.got EXCEPT ![field] = Actual[field]]]]
    BY <1>4 DEF Read
  <2>2. field \in DOMAIN Nothing /\ refresh[r] \in RefreshState
    BY <1>1 DEF RefreshState
  <2>3. [on |-> TRUE, left |-> refresh[r].left \ {field},
         got |-> [refresh[r].got EXCEPT ![field] = Actual[field]]] \in RefreshState
    BY <2>2, ReadTypes DEF PanelTypeOK
  <2>4. refresh' \in [Slots -> RefreshState]
    BY <1>1, <2>1, <2>3
  <2>5. refresh[r].on /\ refresh'[Handler].on = refresh[Handler].on
    BY <1>1, <1>4, <2>1 DEF Read, Open
  <2>6. UNCHANGED << button, busy, display >>
    BY <1>4 DEF Read
  <2>7. PanelTypeOK'
    BY <1>2, <2>4, <2>6 DEF PanelTypeOK, RefreshState, engineVars, stopVars
  <2>8. HandlersFollow'
    BY <1>2, <2>5, <2>6 DEF HandlersFollow, CallsApart, Open, engineVars, stopVars
  <2>9. QED
    BY <2>7, <2>8
<1>5. CASE Apply(r)
  <2>1. refresh' = [refresh EXCEPT ![r] = Idle] /\ display' = refresh[r].got
    BY <1>5 DEF Apply, WhatItRead
  <2>2. refresh' \in [Slots -> RefreshState] /\ display' \in View
    BY <1>1, <2>1, ViewTypes DEF RefreshState
  <2>3. /\ button' \in {"none", "start", "stop", "refresh"}
        /\ busy' \in BOOLEAN
    BY <1>5 DEF Apply, PanelTypeOK
  <2>4. PanelTypeOK'
    BY <1>2, <2>2, <2>3 DEF PanelTypeOK, RefreshState, engineVars, stopVars
  <2>5. CASE r = Handler
    <3>1. startCall = "none" /\ stopCall = "none"
      BY <1>5, <2>5 DEF Apply, Open, HandlersFollow
    <3>2. ~refresh'[Handler].on /\ button' = "none" /\ busy' = FALSE
      BY <1>1, <1>5, <2>1, <2>5 DEF Apply, Idle
    <3>3. HandlersFollow'
      BY <1>2, <3>1, <3>2 DEF HandlersFollow, CallsApart, Open, engineVars, stopVars
    <3>4. QED
      BY <2>4, <3>3
  <2>6. CASE r # Handler
    <3>1. refresh'[Handler] = refresh[Handler] /\ UNCHANGED << button, busy >>
      BY <1>1, <1>5, <2>1, <2>6 DEF Apply
    <3>2. HandlersFollow'
      BY <1>2, <3>1 DEF HandlersFollow, CallsApart, Open, engineVars, stopVars
    <3>3. QED
      BY <2>4, <3>2
  <2>7. QED
    BY <2>5, <2>6
<1>6. QED
  BY <1>3, <1>4, <1>5

\* The switch and the ports leave calls and refreshes alone.
LEMMA SettingsStep ==
  ASSUME PanelTypeOK, HandlersFollow,
         \/ HandleToggleFirewall
         \/ \E on \in BOOLEAN : ToggleFirewall(on)
         \/ \E p \in Ports : HandlePort(p) \/ PortStep(p)
  PROVE  PanelTypeOK' /\ HandlersFollow'
<1>1. UNCHANGED << running, exists, ownStop, closing, crossed, startCall, stopCall, button, busy,
                   refresh >>
  BY DEF HandleToggleFirewall, ToggleFirewall, HandlePort, PortStep, ChangePort, ReadPorts,
         ShowPorts, engineVars, stopVars
<1>2. HandlersFollow'
  BY <1>1 DEF HandlersFollow, CallsApart, Open
<1>3. CASE HandleToggleFirewall
  <2>1. display' \in View /\ toggles' \subseteq BOOLEAN
    BY <1>3 DEF HandleToggleFirewall, PanelTypeOK, View
  <2>2. acts' \in 0 .. MaxActs /\ deaths' \in 0 .. MaxDeaths
    BY <1>3, ActTypes DEF HandleToggleFirewall, PanelTypeOK
  <2>3. QED
    BY <1>1, <1>2, <1>3, <2>1, <2>2 DEF HandleToggleFirewall, PanelTypeOK, engineVars
<1>4. ASSUME NEW on \in BOOLEAN, ToggleFirewall(on) PROVE PanelTypeOK'
  <2>1. [router EXCEPT !.fw = on] \in Settings
    BY DEF PanelTypeOK, Settings
  <2>2. router' \in Settings
    BY <1>4, <2>1, ConfigureTypes DEF ToggleFirewall, PanelTypeOK
  <2>3. QED
    BY <1>1, <1>4, <2>2 DEF ToggleFirewall, PanelTypeOK
<1>5. ASSUME NEW p \in Ports, HandlePort(p) PROVE PanelTypeOK'
  <2>1. edits' \in [Ports -> EditState]
    BY <1>5, ViewTypes DEF HandlePort, PanelTypeOK, EditState
  <2>2. acts' \in 0 .. MaxActs /\ deaths' \in 0 .. MaxDeaths
    BY <1>5, ActTypes DEF HandlePort, PanelTypeOK
  <2>3. QED
    BY <1>1, <1>5, <2>1, <2>2 DEF HandlePort, PanelTypeOK, engineVars, EditState
<1>6. ASSUME NEW p \in Ports, ChangePort(p) PROVE PanelTypeOK'
  <2>1. edits' \in [Ports -> EditState]
    BY <1>6, ViewTypes DEF ChangePort, PanelTypeOK, EditState
  <2>2. [router EXCEPT !.ports = IF edits[p].at = "add" THEN @ \cup {p} ELSE @ \ {p}] \in Settings
    BY DEF PanelTypeOK, Settings
  <2>3. router' \in Settings
    BY <1>6, <2>2, ConfigureTypes DEF ChangePort, PanelTypeOK
  <2>4. QED
    BY <1>1, <1>6, <2>1, <2>3 DEF ChangePort, PanelTypeOK, EditState
<1>7. ASSUME NEW p \in Ports, ReadPorts(p) PROVE PanelTypeOK'
  <2>1. [at |-> "show", ports |-> router.ports] \in EditState
    BY DEF PanelTypeOK, Settings, EditState
  <2>2. edits' \in [Ports -> EditState]
    BY <1>7, <2>1 DEF ReadPorts, PanelTypeOK, EditState
  <2>3. QED
    BY <1>1, <1>7, <2>2 DEF ReadPorts, PanelTypeOK, engineVars, EditState
<1>8. ASSUME NEW p \in Ports, ShowPorts(p) PROVE PanelTypeOK'
  <2>1. edits' \in [Ports -> EditState] /\ display' \in View
    BY <1>8, ViewTypes DEF ShowPorts, PanelTypeOK, EditState, View
  <2>2. QED
    BY <1>1, <1>8, <2>1 DEF ShowPorts, PanelTypeOK, engineVars, EditState
<1>9. QED
  BY <1>2, <1>3, <1>4, <1>5, <1>6, <1>7, <1>8 DEF PortStep

\* Every step keeps types and handlers in order.
LEMMA PanelStep == PanelInv /\ [PanelNext]_panelVars => PanelInv'
<1> SUFFICES ASSUME PanelInv, [PanelNext]_panelVars PROVE PanelInv'
  OBVIOUS
<1>1. CASE UNCHANGED panelVars
  BY <1>1 DEF PanelInv, PanelTypeOK, HandlersFollow, CallsApart, Open, panelVars, engineVars,
              shownVars, stopVars
<1>2. CASE PanelNext
  BY <1>2, CallTypes, CallFollows, CloseStep, PeerSendsStep, ReturnStep, RefreshStep, SettingsStep
  DEF PanelNext, CallStep, PanelInv
<1>3. QED
  BY <1>1, <1>2

LEMMA PanelInvariance == PanelSpec => []PanelInv
  BY PanelInitInv, PanelStep, PTL DEF PanelSpec

\* The panel and what it knows of the engine keep their types (index.tsx
\* l.54-80).
THEOREM PanelTypes == PanelSpec => []PanelTypeOK
<1>1. PanelInv => PanelTypeOK
  BY DEF PanelInv
<1>2. QED
  BY <1>1, PanelInvariance, PTL

\* The dashboard never has a Start and a Stop of its own under way at once
\* (index.tsx l.121-146): a Start overlaps only the Stops of a dying engine and
\* of the closing window.
THEOREM CallsStayApart == PanelSpec => []CallsApart
<1>1. PanelInv => CallsApart
  BY DEF PanelInv, HandlersFollow
<1>2. QED
  BY <1>1, PanelInvariance, PTL
=============================================================================
