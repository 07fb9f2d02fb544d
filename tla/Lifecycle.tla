----------------------------- MODULE Lifecycle ------------------------------
(***************************************************************************)
(* Start and Stop of internal/facade/steambridge_facade.go, the goroutines *)
(* they leave behind and the resources they share: the TUN device, the     *)
(* Steam bridge (Bridge_Init and Bridge_Shutdown of cbridge), the engine   *)
(* context and the wait group.                                             *)
(*                                                                         *)
(* Any number of goroutines may be inside Start or Stop: the callers (the  *)
(* dashboard, the command line) and the Stop an engine goroutine starts    *)
(* when it fails.  The fields of the facade are shared and only `running'  *)
(* is atomic, so a call is as many steps as it has accesses that matter.   *)
(* What one Start creates is numbered: a generation.                       *)
(***************************************************************************)
EXTENDS Integers, FiniteSets

CONSTANTS
  Callers,         \* goroutines that call Start, Stop and Join
  MaxStarts,       \* bound: calls of Start that proceed
  MaxFailures,     \* bound: failures of Start and of a device
  Overlap,         \* whether Start may run beside other calls
  Bootstrap        \* whether there is a --peer

ASSUME LifecycleAssumption ==
  /\ MaxStarts \in Nat /\ MaxFailures \in Nat
  /\ Callers \cap (1 .. MaxStarts) = {}
  /\ Overlap \in BOOLEAN /\ Bootstrap \in BOOLEAN

Gen == 1 .. MaxStarts
NoGen == 0

\* An egress loop that fails starts a goroutine that calls Stop: the thread of
\* its generation.
Threads == Callers \cup Gen

VARIABLES
  running,    \* f.running
  tunDev,     \* the generation of f.tunDev and f.router, or NoGen
  client,     \* that of f.client
  cancelFunc, \* that of f.cancelFunc
  wg,         \* f.wg
  once,       \* whether f.abnormalExitOnce is spent
  pc,         \* pc[t]: where thread t stands in Start or Stop
  mine,       \* mine[t]: the generation of the last Start of t
  made,       \* generations so far: one for each Start that proceeds
  failures,   \* failures so far
  device,     \* device[g]: the TUN device of g
  steam,      \* whether the Steam bridge is initialised
  cancelled,  \* the generations whose engine context is cancelled
  egress,     \* egress[g]: the egress goroutine of g; "ended" with an error, or
              \* "gone" without one
  reader,     \* reader[g]: its ReadLoop goroutine
  source,     \* source[g]: the generation of the device egress[g] reads
  misuse      \* history: who used a bridge, or a client, that is not there

fields == << running, tunDev, client, cancelFunc, wg, once >>
threadVars == << pc, mine, made, failures >>
engineVars == << device, steam, cancelled, egress, reader, source >>
lifecycleVars == << fields, threadVars, engineVars, misuse >>

StartStates == {"create", "connect", "arm", "spawn", "settle"}
StopStates == {"farewell", "cancel", "unblock", "wait", "close", "shutdown"}

TypeOK ==
  /\ running \in BOOLEAN /\ once \in BOOLEAN /\ wg \in Nat
  /\ {tunDev, client, cancelFunc} \subseteq Gen \cup {NoGen}
  /\ pc \in [Threads -> {"idle", "launched"} \cup StartStates \cup StopStates]
  /\ mine \in [Threads -> Gen \cup {NoGen}]
  /\ made \in Gen \cup {NoGen} /\ failures \in 0 .. MaxFailures
  /\ device \in [Gen -> {"none", "open", "lost", "unblocked", "closed"}]
  /\ steam \in BOOLEAN /\ cancelled \subseteq Gen
  /\ egress \in [Gen -> {"none", "on", "ended", "gone"}]
  /\ reader \in [Gen -> {"none", "on", "ended"}]
  /\ source \in [Gen -> Gen \cup {NoGen}]
  /\ misuse \subseteq {"start", "stop", "peer", "join", "nil"}

Init ==
  /\ running = FALSE /\ once = FALSE /\ wg = 0
  /\ tunDev = NoGen /\ client = NoGen /\ cancelFunc = NoGen
  /\ pc = [t \in Threads |-> "idle"]
  /\ mine = [t \in Threads |-> NoGen]
  /\ made = NoGen /\ failures = 0
  /\ device = [g \in Gen |-> "none"]
  /\ steam = FALSE /\ cancelled = {}
  /\ egress = [g \in Gen |-> "none"]
  /\ reader = [g \in Gen |-> "none"]
  /\ source = [g \in Gen |-> NoGen]
  /\ misuse = {}

-----------------------------------------------------------------------------
\* Thread t goes from one label of its call to the next.
Moves(t, from, to) ==
  /\ pc[t] = from /\ pc' = [pc EXCEPT ![t] = to]
  /\ UNCHANGED << mine, made >>

\* A call of the bridge by who: there are no Steam interfaces when it is down.
Use(who) == misuse' = IF steam THEN misuse ELSE misuse \cup {who}

Fail == failures < MaxFailures /\ failures' = failures + 1

\* The device of generation g goes to a state, unless it is closed.
Turn(g, state) ==
  device' = IF g # NoGen /\ device[g] # "closed"
            THEN [device EXCEPT ![g] = state] ELSE device

\* An interface of the same name is deleted under whoever reads it.
Unlinked == [g \in Gen |-> IF device[g] = "open" THEN "lost" ELSE device[g]]

-----------------------------------------------------------------------------
(***************************************************************************)
(* Start.                                                                  *)
(***************************************************************************)
InStart(t) == pc[t] \in StartStates
InStop(t) == pc[t] \in StopStates

\* The atomic claim of the flag; a Start that finds it taken returns at once.
StartClaim(t) ==
  /\ t \in Callers /\ made < MaxStarts
  /\ Overlap \/ \A u \in Threads : pc[u] = "idle"
  /\ ~running /\ running' = TRUE
  /\ pc[t] = "idle" /\ pc' = [pc EXCEPT ![t] = "create"]
  /\ made' = made + 1 /\ mine' = [mine EXCEPT ![t] = made + 1]
  /\ UNCHANGED << tunDev, client, cancelFunc, wg, once, failures, engineVars, misuse >>

\* NewTUN and NewRouter.
Create(t) ==
  /\ Moves(t, "create", "connect")
  /\ tunDev' = mine[t]
  /\ device' = [Unlinked EXCEPT ![mine[t]] = "open"]
  /\ UNCHANGED << running, client, cancelFunc, wg, once, failures, steam, cancelled,
                  egress, reader, source, misuse >>

CreateFails(t) ==
  /\ Moves(t, "create", "idle") /\ Fail
  /\ running' = FALSE
  /\ device' \in {device, Unlinked}
  /\ UNCHANGED << tunDev, client, cancelFunc, wg, once, steam, cancelled, egress,
                  reader, source, misuse >>

\* NewClient, with Bridge_Init.
Connect(t) ==
  /\ Moves(t, "connect", "arm")
  /\ client' = mine[t] /\ steam' = TRUE
  /\ UNCHANGED << running, tunDev, cancelFunc, wg, once, failures, device, cancelled,
                  egress, reader, source, misuse >>

\* An error of NewClient closes the device and clears the flag.  Faulty
\* variant: the flag stays claimed.
KeepFlag == UNCHANGED running
ClearFlag == running' = FALSE
ConnectFails(t) ==
  /\ Moves(t, "connect", "idle") /\ Fail
  /\ Turn(tunDev, "closed") /\ ClearFlag
  /\ UNCHANGED << tunDev, client, cancelFunc, wg, once, steam, cancelled, egress,
                  reader, source, misuse >>

\* SetJoinable, and the engine context of this generation.
Arm(t) ==
  /\ Moves(t, "arm", "spawn")
  /\ Use("start")
  /\ once' = FALSE /\ cancelFunc' = mine[t]
  /\ UNCHANGED << running, tunDev, client, wg, failures, engineVars >>

\* The two engine goroutines; the egress loop reads f.router.  Faulty variant:
\* the wait group counts one of them.
CountOne == wg' = wg + 1
CountBoth == wg' = wg + 2
Spawn(t) ==
  /\ Moves(t, "spawn", "settle")
  /\ CountBoth
  /\ egress' = [egress EXCEPT ![mine[t]] = "on"]
  /\ reader' = [reader EXCEPT ![mine[t]] = "on"]
  /\ source' = [source EXCEPT ![mine[t]] = tunDev]
  /\ UNCHANGED << running, tunDev, client, cancelFunc, once, failures, device, steam,
                  cancelled, misuse >>

\* The --peer is asked for an address through the bridge, or the host's own is
\* assigned, which takes none; then Start returns.
Settle(t) ==
  /\ Moves(t, "settle", "idle")
  /\ IF Bootstrap THEN Use("peer") ELSE UNCHANGED misuse
  /\ UNCHANGED << fields, failures, engineVars >>

-----------------------------------------------------------------------------
(***************************************************************************)
(* Stop.                                                                   *)
(***************************************************************************)
MayStop(t) ==
  \/ pc[t] = "launched"
  \/ t \in Callers /\ pc[t] = "idle" /\ (Overlap \/ \A u \in Threads : ~InStart(u))

\* Only the call that clears the flag goes on.  Faulty variant: every Stop does
\* the work.
EverStarted == made # NoGen
StillSet == running
StopClaim(t) ==
  /\ MayStop(t)
  /\ running' = FALSE
  /\ pc' = [pc EXCEPT ![t] = IF StillSet THEN "farewell" ELSE "idle"]
  /\ UNCHANGED << tunDev, client, cancelFunc, wg, once, mine, made, failures, engineVars,
                  misuse >>

\* SetJoinable(false) and Disconnect.
Farewell(t) ==
  /\ Moves(t, "farewell", "cancel")
  /\ IF client # NoGen THEN Use("stop") ELSE UNCHANGED misuse
  /\ UNCHANGED << fields, failures, engineVars >>

CancelContext(t) ==
  /\ Moves(t, "cancel", "unblock")
  /\ cancelled' = cancelled \cup ({cancelFunc} \ {NoGen})
  /\ UNCHANGED << fields, failures, device, steam, egress, reader, source, misuse >>

\* Faulty variant: the blocked read is not woken.
WakeNobody == UNCHANGED device
WakeReader == Turn(tunDev, "unblocked")
Unblock(t) ==
  /\ Moves(t, "unblock", "wait")
  /\ WakeReader
  /\ UNCHANGED << fields, failures, steam, cancelled, egress, reader, source, misuse >>

\* Faulty variant: Stop does not wait.
Whenever == TRUE
AllDone == wg = 0
Wait(t) ==
  /\ AllDone
  /\ Moves(t, "wait", "close")
  /\ UNCHANGED << fields, failures, engineVars, misuse >>

CloseDevice(t) ==
  /\ Moves(t, "close", "shutdown")
  /\ Turn(tunDev, "closed")
  /\ UNCHANGED << fields, failures, steam, cancelled, egress, reader, source, misuse >>

\* client.Close, with Bridge_Shutdown.
Shutdown(t) ==
  /\ Moves(t, "shutdown", "idle")
  /\ steam' = (steam /\ client = NoGen)
  /\ UNCHANGED << fields, failures, device, cancelled, egress, reader, source, misuse >>

-----------------------------------------------------------------------------
(***************************************************************************)
(* The engine goroutines of generation g, and what the user's side does.   *)
(***************************************************************************)

\* Unless its context is cancelled, the first goroutine that fails launches a
\* Stop.  Faulty variant: it ends without a word.
EndQuietly(g) == UNCHANGED << once, pc >>
ReportEnd(g) ==
  IF g \notin cancelled /\ ~once
  THEN once' = TRUE /\ pc' = [pc EXCEPT ![g] = "launched"]
  ELSE UNCHANGED << once, pc >>

\* The read of the egress loop fails: woken, closed, or its interface deleted,
\* removed or broken.  The loop takes io.EOF for a regular end.
EgressEnds(g) ==
  /\ egress[g] = "on" /\ source[g] # NoGen
  /\ IF device[source[g]] = "open" THEN Fail ELSE UNCHANGED failures
  /\ \/ egress' = [egress EXCEPT ![g] = "ended"] /\ ReportEnd(g)
     \/ egress' = [egress EXCEPT ![g] = "gone"] /\ UNCHANGED << once, pc >>
  /\ wg' = wg - 1
  /\ UNCHANGED << running, tunDev, client, cancelFunc, mine, made, device, steam,
                  cancelled, reader, source, misuse >>

\* The ReadLoop sees its context cancelled.  It has no other end: the bridge
\* never reports an error.
ReaderEnds(g) ==
  /\ reader[g] = "on" /\ g \in cancelled
  /\ reader' = [reader EXCEPT ![g] = "ended"]
  /\ wg' = wg - 1
  /\ UNCHANGED << running, tunDev, client, cancelFunc, once, threadVars, device, steam,
                  cancelled, egress, source, misuse >>

\* Facade.Join of the client there is.
Join(t) ==
  /\ t \in Callers /\ pc[t] = "idle" /\ running
  /\ IF client = NoGen THEN misuse' = misuse \cup {"nil"} ELSE Use("join")
  /\ UNCHANGED << fields, threadVars, engineVars >>

-----------------------------------------------------------------------------
StartStep(t) ==
  \/ Create(t) \/ CreateFails(t) \/ Connect(t) \/ ConnectFails(t)
  \/ Arm(t) \/ Spawn(t) \/ Settle(t)

StopStep(t) ==
  \/ Farewell(t) \/ CancelContext(t) \/ Unblock(t) \/ Wait(t) \/ CloseDevice(t) \/ Shutdown(t)

Next ==
  \/ \E t \in Threads : StartClaim(t) \/ StartStep(t) \/ StopClaim(t) \/ StopStep(t)
  \/ \E t \in Threads : Join(t)
  \/ \E g \in Gen : EgressEnds(g) \/ ReaderEnds(g)

Spec == Init /\ [][Next]_lifecycleVars

\* A goroutine inside a call goes on, a launched Stop runs, a cancelled
\* ReadLoop notices, a read that was woken returns: the Go scheduler and the
\* idle delay's maximum promise all four.  Nobody has to call, or to fail.
Woken(g) == source[g] # NoGen /\ device[source[g]] # "open"

GoesOn ==
  /\ \A t \in Threads : /\ WF_lifecycleVars(StartStep(t)) /\ WF_lifecycleVars(StopStep(t))
                        /\ WF_lifecycleVars(pc[t] = "launched" /\ StopClaim(t))
  /\ \A g \in Gen : /\ WF_lifecycleVars(ReaderEnds(g))
                    /\ WF_lifecycleVars(Woken(g) /\ EgressEnds(g))

FairSpec == Spec /\ GoesOn

-----------------------------------------------------------------------------
\* While an engine goroutine runs, its device is not closed and the bridge is
\* up: Stop frees nothing under it (steambridge_facade.go l.188-197).
FreedIsUnused ==
  \A g \in Gen :
    /\ egress[g] = "on" => device[source[g]] # "closed"
    /\ reader[g] = "on" => steam

\* Between calls the flag tells the truth: when it is clear nothing is left of
\* any life, no goroutine, device or bridge; when it is set there is a bridge
\* and a ReadLoop to stop (steambridge_facade.go l.86-97, 169-199).
FlagTellsTheTruth ==
  (\A t \in Threads : pc[t] = "idle") =>
    IF running
    THEN steam /\ tunDev # NoGen /\ reader[tunDev] = "on" /\ device[tunDev] # "closed"
    ELSE /\ ~steam /\ wg = 0
         /\ \A g \in Gen : /\ device[g] \in {"none", "closed"}
                           /\ egress[g] # "on" /\ reader[g] # "on"

\* No call of Start or Stop meets a bridge that is down, however many of them
\* and of the engine's own Stops there are.  The last call of Start, the request
\* to the --peer, is the one exception, and only if the egress loop of this very
\* Start has failed already (steambridge_facade.go l.112, 122-132, 151, 173-176).
CallsMeetABridge ==
  /\ {"start", "stop"} \cap misuse = {}
  /\ \A t \in Threads : pc[t] = "settle" /\ ~steam => egress[mine[t]] = "ended"

\* Stop returns: what it waits for ends (steambridge_facade.go l.178-189).
StopReturns == \A t \in Threads : InStop(t) ~> ~InStop(t)

\* An egress loop that ends with an error does not leave half an engine behind:
\* the context of its generation is cancelled in the end, by the Stop it
\* launches or by another (steambridge_facade.go l.122-146).
EngineDeathStops == \A g \in Gen : egress[g] = "ended" ~> g \in cancelled

-----------------------------------------------------------------------------
(***************************************************************************)
(* What README.md and a comment say and the program does not do.           *)
(***************************************************************************)

\* "Now safe to free - no goroutines are touching these"
\* (steambridge_facade.go l.191): the --peer is asked through a bridge.
PeerIsAskedThroughABridge == "peer" \notin misuse

\* "If an engine goroutine dies ... the bridge tears itself down once"
\* (README.md l.88): whatever the read of the egress loop returns.
AnyDeathStops == \A g \in Gen : egress[g] \in {"ended", "gone"} ~> g \in cancelled
=============================================================================
