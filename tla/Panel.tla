------------------------------- MODULE Panel --------------------------------
(***************************************************************************)
(* The controls of the dashboard (frontend/pages/index.tsx): Start and     *)
(* Stop, the firewall switch, the port list, and the refresh that polls    *)
(* the engine behind them every two seconds.  Every call of the dashboard  *)
(* runs in a goroutine of its own (app.go), so calls and polls overtake    *)
(* each other; the facade's settings and peers belong to its router, which *)
(* a Start replaces and a Stop keeps.  Stop has two callers the dashboard  *)
(* does not see: an engine that ends by itself, and the closing window.    *)
(***************************************************************************)
EXTENDS Integers

CONSTANTS
  Ports,      \* ports the user edits
  Senders,    \* peers whose packets the router may see
  Polls,      \* bound: polls on their way at once
  Handler,    \* the refresh a button awaits
  MaxActs,    \* bound: what the user does
  MaxDeaths   \* bound: times the engine ends by itself

ASSUME PanelAssumption ==
  /\ Handler \notin Polls
  /\ MaxActs \in Nat /\ MaxDeaths \in Nat

VARIABLES
  running,    \* Facade.running
  router,     \* settings and peers of Facade.router, or those of no router
  exists,     \* Facade.router # nil
  ownStop,    \* the Stop the engine launched is at work
  closing,    \* Stop of the closing window: "no", "called", "draining", "done"
  startCall,  \* StartBridge: "none", "claimed", "routed", "live", "ok", "error"
  stopCall,   \* StopBridge: "none", "called", "draining", "ok"
  button,     \* the handler of Start or Stop: "none", "start", "stop", "refresh"
  busy,       \* busy
  display,    \* status.running, firewallEnabled, allowedPorts and peers
  refresh,    \* refresh[r]: what refresh r has read so far
  toggles,    \* calls of ToggleFirewall on their way
  edits,      \* edits[p]: the handler of a change of port p
  crossed,    \* history: a Start and a Stop of other callers were at work at once
  acts, deaths

stopVars == << ownStop, closing, crossed >>
engineVars == << running, router, exists, stopVars, startCall, stopCall >>
shownVars == << button, busy, display, refresh, toggles, edits >>
panelVars == << engineVars, shownVars, acts, deaths >>

Settings == [fw : BOOLEAN, ports : SUBSET Ports, peers : SUBSET Senders]
NewRouter == [fw |-> FALSE, ports |-> {}, peers |-> {}]

View == [running : BOOLEAN, fw : BOOLEAN, ports : SUBSET Ports, peers : SUBSET Senders]
Actual == [running |-> running, fw |-> router.fw, ports |-> router.ports,
           peers |-> router.peers]

Nothing == [running |-> FALSE, fw |-> FALSE, ports |-> {}, peers |-> {}]

\* A refresh: what it has still to read, and what it has read.
Idle == [on |-> FALSE, left |-> {}, got |-> Nothing]
Begun == [on |-> TRUE, left |-> DOMAIN Nothing, got |-> Nothing]
Slots == Polls \cup {Handler}

Quiet == [at |-> "none", ports |-> {}]
Edit(at) == [at |-> at, ports |-> {}]

PanelTypeOK ==
  /\ running \in BOOLEAN /\ router \in Settings /\ exists \in BOOLEAN
  /\ ownStop \in BOOLEAN /\ crossed \in BOOLEAN
  /\ closing \in {"no", "called", "draining", "done"}
  /\ startCall \in {"none", "claimed", "routed", "live", "ok", "error"}
  /\ stopCall \in {"none", "called", "draining", "ok"}
  /\ button \in {"none", "start", "stop", "refresh"} /\ busy \in BOOLEAN
  /\ display \in View
  /\ refresh \in [Slots -> [on : BOOLEAN, left : SUBSET DOMAIN Nothing, got : View]]
  /\ toggles \subseteq BOOLEAN
  /\ edits \in [Ports -> [at : {"none", "add", "remove", "read", "show"}, ports : SUBSET Ports]]
  /\ acts \in 0 .. MaxActs /\ deaths \in 0 .. MaxDeaths

PanelInit ==
  /\ running = FALSE /\ router = NewRouter /\ exists = FALSE
  /\ ownStop = FALSE /\ closing = "no" /\ crossed = FALSE
  /\ startCall = "none" /\ stopCall = "none"
  /\ button = "none" /\ busy = FALSE
  /\ display = Nothing
  /\ refresh = [r \in Slots |-> Idle]
  /\ toggles = {} /\ edits = [p \in Ports |-> Quiet]
  /\ acts = 0 /\ deaths = 0

\* The dashboard runs as long as its window.
Open == closing = "no"

Act == Open /\ acts < MaxActs /\ acts' = acts + 1 /\ UNCHANGED deaths

-----------------------------------------------------------------------------
(***************************************************************************)
(* Start and Stop.  Their button is the one the last status calls for, and *)
(* is disabled while the panel is busy.                                    *)
(***************************************************************************)

\* The button is disabled.  Faulty variant: only once a Start has returned.
OnceStarted(handler) == handler \notin {"none", "start"}
Disabled(handler) == handler # "none"

HandleStart ==
  /\ ~busy /\ ~display.running /\ startCall = "none" /\ Act
  /\ button' = "start" /\ busy' = Disabled("start")
  /\ IF running THEN startCall' = "ok" /\ UNCHANGED << running, crossed >>
                ELSE /\ startCall' = "claimed" /\ running' = TRUE
                     /\ crossed' = (crossed \/ ownStop)
  /\ UNCHANGED << router, exists, ownStop, closing, stopCall, display, refresh, toggles,
                  edits >>

\* Start: the device and the router, the client and the goroutines, the
\* address.  The device and the client may fail.
StartBridge ==
  /\ \/ /\ startCall = "claimed" /\ startCall' = "routed"
        /\ router' = NewRouter /\ exists' = TRUE /\ UNCHANGED running
     \/ /\ \/ startCall = "routed" /\ startCall' = "live"
           \/ startCall = "live" /\ startCall' = "ok"
        /\ UNCHANGED << running, router, exists >>
     \/ /\ startCall \in {"claimed", "routed"} /\ startCall' = "error"
        /\ running' = FALSE /\ UNCHANGED << router, exists >>
  /\ UNCHANGED << stopVars, stopCall, shownVars, acts, deaths >>

HandleStop ==
  /\ ~busy /\ display.running /\ stopCall = "none" /\ Act
  /\ button' = "stop" /\ busy' = Disabled("stop") /\ stopCall' = "called"
  /\ UNCHANGED << running, router, exists, stopVars, startCall, display, refresh, toggles,
                  edits >>

\* Stop: a second one returns at once.
StopBridge ==
  /\ \/ stopCall = "called" /\ running /\ stopCall' = "draining" /\ running' = FALSE
     \/ stopCall = "called" /\ ~running /\ stopCall' = "ok" /\ UNCHANGED running
     \/ stopCall = "draining" /\ stopCall' = "ok" /\ UNCHANGED running
  /\ UNCHANGED << router, exists, stopVars, startCall, shownVars, acts, deaths >>

\* The engine ends by itself and stops what it can.
EngineDies ==
  /\ running /\ startCall \in {"none", "live", "ok"} /\ deaths < MaxDeaths
  /\ running' = FALSE /\ ownStop' = TRUE /\ deaths' = deaths + 1
  /\ UNCHANGED << router, exists, closing, crossed, startCall, stopCall, shownVars, acts >>

OwnStopEnds ==
  /\ ownStop /\ ownStop' = FALSE
  /\ UNCHANGED << running, router, exists, closing, crossed, startCall, stopCall, shownVars,
                  acts, deaths >>

\* The window closes, and shutdown calls Stop: the dashboard is gone, the calls
\* it has made are not.
CloseWindow ==
  /\ Open /\ closing' = "called"
  /\ button' = "none" /\ busy' = FALSE /\ display' = Nothing
  /\ refresh' = [r \in Slots |-> Idle]
  /\ UNCHANGED << running, router, exists, ownStop, crossed, startCall, stopCall, toggles, edits,
                  acts, deaths >>

Shutdown ==
  /\ \/ /\ closing = "called" /\ running /\ closing' = "draining" /\ running' = FALSE
        /\ crossed' = (crossed \/ startCall \in {"claimed", "routed"})
     \/ /\ closing = "called" /\ ~running /\ closing' = "done"
        /\ UNCHANGED << running, crossed >>
     \/ /\ closing = "draining" /\ closing' = "done"
        /\ UNCHANGED << running, crossed >>
  /\ UNCHANGED << router, exists, ownStop, startCall, stopCall, shownVars, acts, deaths >>

\* The ReadLoop runs until a Stop has waited for it, and tells the router who
\* sends.
EngineRuns ==
  /\ startCall \in {"none", "live", "ok"}
  /\ running \/ ownStop \/ "draining" \in {stopCall, closing}

PeerSends(s) ==
  /\ EngineRuns /\ s \notin router.peers
  /\ router' = [router EXCEPT !.peers = @ \cup {s}]
  /\ UNCHANGED << running, exists, stopVars, startCall, stopCall, shownVars, acts, deaths >>

\* The handler goes on when its call returns: a refresh, or an error.  Faulty
\* variant: only a call that succeeds gives the button back.
Forgetful(ok) == IF ok THEN "refresh" ELSE button
Onward(ok) == IF ok THEN "refresh" ELSE "none"

CallReturns ==
  /\ Open
  /\ \/ /\ button = "start" /\ startCall \in {"ok", "error"}
        /\ startCall' = "none" /\ UNCHANGED stopCall
     \/ /\ button = "stop" /\ stopCall = "ok"
        /\ stopCall' = "none" /\ UNCHANGED startCall
  /\ button' = Onward(startCall # "error")
  /\ busy' = Disabled(button')
  /\ refresh' = [refresh EXCEPT ![Handler] = IF button' = "refresh" THEN Begun ELSE @]
  /\ UNCHANGED << running, router, exists, stopVars, display, toggles, edits, acts, deaths >>

-----------------------------------------------------------------------------
(***************************************************************************)
(* refresh: four reads side by side, applied together.  A poll starts      *)
(* every two seconds, whether the last one has ended or not.               *)
(***************************************************************************)
Poll(r) ==
  /\ Open /\ r \in Polls /\ refresh[r] = Idle
  /\ refresh' = [refresh EXCEPT ![r] = Begun]
  /\ UNCHANGED << engineVars, button, busy, display, toggles, edits, acts, deaths >>

\* GetStatus, GetPeers, GetFirewallState and GetAllowedPorts.
Read(r) ==
  /\ Open /\ refresh[r].on
  /\ \E field \in refresh[r].left :
       refresh' = [refresh EXCEPT ![r] =
                     [on |-> TRUE, left |-> @.left \ {field},
                      got |-> [@.got EXCEPT ![field] = Actual[field]]]]
  /\ UNCHANGED << engineVars, button, busy, display, toggles, edits, acts, deaths >>

\* What a refresh shows.  Faulty variant: it leaves the switch alone.
ButTheSwitch(r) == [refresh[r].got EXCEPT !.fw = display.fw]
WhatItRead(r) == refresh[r].got

Apply(r) ==
  /\ Open /\ refresh[r].on /\ refresh[r].left = {}
  /\ display' = WhatItRead(r)
  /\ refresh' = [refresh EXCEPT ![r] = Idle]
  /\ IF r = Handler THEN button' = "none" /\ busy' = FALSE ELSE UNCHANGED << button, busy >>
  /\ UNCHANGED << engineVars, toggles, edits, acts, deaths >>

-----------------------------------------------------------------------------
(***************************************************************************)
(* The firewall switch moves at once; the call follows.  A port is shown   *)
(* once the list has been read back.  Without a router nothing happens.    *)
(***************************************************************************)
Configure(settings) == router' = IF exists THEN settings ELSE router

HandleToggleFirewall ==
  /\ Act
  /\ display' = [display EXCEPT !.fw = ~@]
  /\ toggles' = toggles \cup {~display.fw}
  /\ UNCHANGED << engineVars, button, busy, refresh, edits >>

ToggleFirewall(on) ==
  /\ on \in toggles /\ toggles' = toggles \ {on}
  /\ Configure([router EXCEPT !.fw = on])
  /\ UNCHANGED << running, exists, stopVars, startCall, stopCall, button, busy, display, refresh,
                  edits, acts, deaths >>

HandlePort(p) ==
  /\ edits[p] = Quiet /\ Act
  /\ \E at \in {"add", "remove"} : edits' = [edits EXCEPT ![p] = Edit(at)]
  /\ UNCHANGED << engineVars, button, busy, display, refresh, toggles >>

\* AddPort and RemovePort.
ChangePort(p) ==
  /\ edits[p].at \in {"add", "remove"}
  /\ Configure([router EXCEPT !.ports = IF edits[p].at = "add" THEN @ \cup {p} ELSE @ \ {p}])
  /\ edits' = [edits EXCEPT ![p] = Edit("read")]
  /\ UNCHANGED << running, exists, stopVars, startCall, stopCall, button, busy, display, refresh,
                  toggles, acts, deaths >>

\* GetAllowedPorts, and its answer.
ReadPorts(p) ==
  /\ Open /\ edits[p].at = "read"
  /\ edits' = [edits EXCEPT ![p] = [at |-> "show", ports |-> router.ports]]
  /\ UNCHANGED << engineVars, button, busy, display, refresh, toggles, acts, deaths >>

ShowPorts(p) ==
  /\ Open /\ edits[p].at = "show"
  /\ display' = [display EXCEPT !.ports = edits[p].ports]
  /\ edits' = [edits EXCEPT ![p] = Quiet]
  /\ UNCHANGED << engineVars, button, busy, refresh, toggles, acts, deaths >>

-----------------------------------------------------------------------------
PortStep(p) == ChangePort(p) \/ ReadPorts(p) \/ ShowPorts(p)

PanelNext ==
  \/ HandleStart \/ StartBridge \/ HandleStop \/ StopBridge \/ CallReturns
  \/ EngineDies \/ OwnStopEnds \/ CloseWindow \/ Shutdown \/ \E s \in Senders : PeerSends(s)
  \/ \E r \in Slots : Poll(r) \/ Read(r) \/ Apply(r)
  \/ HandleToggleFirewall \/ \E on \in BOOLEAN : ToggleFirewall(on)
  \/ \E p \in Ports : HandlePort(p) \/ PortStep(p)

PanelSpec == PanelInit /\ [][PanelNext]_panelVars

\* Calls return and polls go on; the user need not do anything.  Once a Start
\* and a Stop have been at work together a Stop may wait for goroutines nobody
\* has cancelled (facade l.122, 180, 189), and nothing is assumed of it.
PanelFairness ==
  /\ WF_panelVars(StartBridge) /\ WF_panelVars(~crossed /\ StopBridge) /\ WF_panelVars(CallReturns)
  /\ WF_panelVars(~crossed /\ OwnStopEnds)
  /\ \A r \in Slots : WF_panelVars(Poll(r)) /\ WF_panelVars(Read(r)) /\ WF_panelVars(Apply(r))
  /\ \A on \in BOOLEAN : WF_panelVars(ToggleFirewall(on))
  /\ \A p \in Ports : WF_panelVars(PortStep(p))

PanelFairSpec == PanelSpec /\ PanelFairness

-----------------------------------------------------------------------------
\* The dashboard never has a Start and a Stop of its own under way at once,
\* whatever the polls show meanwhile: a Start overlaps only the Stops the
\* dashboard does not see, the engine's own and the closing window's
\* (index.tsx l.121-146).
CallsApart == startCall = "none" \/ stopCall = "none"

\* The buttons come back, whether the call succeeds, fails or finds nothing to
\* do, as long as no Start has met such a Stop at work (index.tsx l.121-146).
ControlsComeBack == busy ~> ~busy \/ crossed

\* Once the user, the peers and the engine leave things alone the panel shows
\* what the engine does, for good: polls that were overtaken, a switch moved
\* before there is a router, and a router a Start has replaced are put right
\* (index.tsx l.63-80, 183-217).
PanelSettles == <>[](Open => display = Actual)
=============================================================================
