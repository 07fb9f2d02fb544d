------------------------------- MODULE Engine -------------------------------
(***************************************************************************)
(* One life of the engine down to its Windows device: the handles NewTUN   *)
(* opens (internal/tun/device_windows.go), the egress goroutine that       *)
(* blocks in Read, the ReadLoop that polls Steam with an idle backoff      *)
(* (internal/steam/backoff.go) and calls Write, and the Stop that wakes    *)
(* both, waits for them and closes the handles.                            *)
(*                                                                         *)
(* Lifecycle is about the calls of Start and Stop of several lives and     *)
(* takes the device as a whole; here a step is one access to the device.   *)
(* What the packets say is the subject of Overlay and JoinHandshake.       *)
(***************************************************************************)
EXTENDS Integers

CONSTANTS
  MinIdle, MaxIdle,  \* minIdleSleep and maxIdleSleep, in milliseconds
  MayLose,           \* whether the adapter may be removed under the engine
  MayFail,           \* whether a call of the system may fail
  MaxRing            \* bound: packets of the operating system in the ring

ASSUME EngineAssumption ==
  /\ MinIdle \in Nat \ {0} /\ MaxIdle \in Nat /\ MinIdle <= MaxIdle
  /\ MayLose \in BOOLEAN /\ MayFail \in BOOLEAN
  /\ MaxRing \in Nat

VARIABLES
  pc,         \* where Start, later Stop, stands
  adapter,    \* the adapter handle: "none", "open", "closed"
  session,    \* the wintun session, likewise
  event,      \* closeEvent: "none", "unset", "set", "closed"
  closed,     \* Device.closed
  ring,       \* packets the system has sent and Read has not taken
  lost,       \* the adapter has been removed
  steam,      \* the bridge is initialised
  cancelled,  \* the engine's context
  launched,   \* an abnormal exit has launched Stop
  egress,     \* StartEgress: where its Read stands
  reader,     \* the ReadLoop
  cur,        \* idleBackoff.cur
  silence     \* history: how long the ReadLoop has slept since a packet,
              \* counted up to MaxIdle

handles == << adapter, session, event >>
system  == << ring, lost >>
facade  == << pc, steam, cancelled >>
backoff == << cur, silence >>
engineVars ==
  << handles, closed, system, facade, launched, egress, reader, backoff >>

Opening  == {"new", "session", "event", "client", "spawn"}
Stopping == {"cancel", "mark", "signal", "wait", "close", "shutdown"}

EngineTypeOK ==
  /\ pc \in Opening \cup {"failed", "running"} \cup Stopping \cup {"stopped"}
  /\ adapter \in {"none", "open", "closed"}
  /\ session \in {"none", "open", "closed"}
  /\ event \in {"none", "unset", "set", "closed"}
  /\ closed \in BOOLEAN /\ lost \in BOOLEAN /\ steam \in BOOLEAN
  /\ cancelled \in BOOLEAN /\ launched \in BOOLEAN
  /\ ring \in 0 .. MaxRing
  /\ egress \in {"none", "check", "receive", "wait", "ended"}
  /\ reader \in {"none", "head", "poll", "sleep", "check", "send", "ended"}
  /\ cur \in 0 .. MaxIdle /\ silence \in 0 .. MaxIdle

EngineInit ==
  /\ pc = "new"
  /\ adapter = "none" /\ session = "none" /\ event = "none"
  /\ closed = FALSE /\ ring = 0 /\ lost = FALSE
  /\ steam = FALSE /\ cancelled = FALSE /\ launched = FALSE
  /\ egress = "none" /\ reader = "none"
  /\ cur = 0 /\ silence = 0

-----------------------------------------------------------------------------
(***************************************************************************)
(* Start: NewTUN, NewClient, the two goroutines.                           *)
(***************************************************************************)

\* CreateAdapter, or OpenAdapter of one that exists.
OpenAdapter ==
  /\ pc = "new"
  /\ \/ pc' = "session" /\ adapter' = "open"
     \/ MayFail /\ pc' = "failed" /\ UNCHANGED adapter
  /\ UNCHANGED << session, event, closed, system, steam, cancelled, launched, egress,
                  reader, backoff >>

StartSession ==
  /\ pc = "session"
  /\ \/ pc' = "event" /\ session' = "open" /\ UNCHANGED adapter
     \/ MayFail /\ pc' = "failed" /\ adapter' = "closed" /\ UNCHANGED session
  /\ UNCHANGED << event, closed, system, steam, cancelled, launched, egress, reader, backoff >>

\* Faulty variant: the session outlives the failed call.
LeaveSession == adapter' = "closed" /\ UNCHANGED session
EndSession == session' = "closed" /\ adapter' = "closed"

CreateEvent ==
  /\ pc = "event"
  /\ \/ pc' = "client" /\ event' = "unset" /\ UNCHANGED << session, adapter >>
     \/ MayFail /\ pc' = "failed" /\ EndSession /\ UNCHANGED event
  /\ UNCHANGED << closed, system, steam, cancelled, launched, egress, reader, backoff >>

\* Device.Close.
CloseDevice == EndSession /\ event' = "closed"

NewClient ==
  /\ pc = "client"
  /\ \/ pc' = "spawn" /\ steam' = TRUE /\ UNCHANGED handles
     \/ MayFail /\ pc' = "failed" /\ CloseDevice /\ UNCHANGED steam
  /\ UNCHANGED << closed, system, cancelled, launched, egress, reader, backoff >>

Spawn ==
  /\ pc = "spawn" /\ pc' = "running"
  /\ egress' = "check" /\ reader' = "head"
  /\ UNCHANGED << handles, closed, system, steam, cancelled, launched, backoff >>

-----------------------------------------------------------------------------
(***************************************************************************)
(* Stop, called by the user or launched by an abnormal exit.               *)
(***************************************************************************)
Moves(from, to) == pc = from /\ pc' = to

Claim ==
  /\ Moves("running", "cancel")
  /\ UNCHANGED << handles, closed, system, steam, cancelled, launched, egress, reader, backoff >>

Cancel ==
  /\ Moves("cancel", "mark")
  /\ cancelled' = TRUE
  /\ UNCHANGED << handles, closed, system, steam, launched, egress, reader, backoff >>

\* Unblock: the flag, then the manual-reset event.
Mark ==
  /\ Moves("mark", "signal")
  /\ closed' = TRUE
  /\ UNCHANGED << handles, system, steam, cancelled, launched, egress, reader, backoff >>

\* Faulty variant: the blocked read is not woken.
KeepEvent == UNCHANGED event
SetEvent == event' = "set"

Signal ==
  /\ Moves("signal", "wait")
  /\ SetEvent
  /\ UNCHANGED << adapter, session, closed, system, steam, cancelled, launched, egress,
                  reader, backoff >>

\* wg.Wait.  Faulty variants: only one of the goroutines is counted.
Returned(g) == g \in {"none", "ended"}
ReaderReturned == Returned(reader)
EgressReturned == Returned(egress)
AllReturned == Returned(egress) /\ Returned(reader)

Wait ==
  /\ Moves("wait", "close")
  /\ AllReturned
  /\ UNCHANGED << handles, closed, system, steam, cancelled, launched, egress, reader, backoff >>

Close ==
  /\ Moves("close", "shutdown")
  /\ CloseDevice
  /\ UNCHANGED << closed, system, steam, cancelled, launched, egress, reader, backoff >>

Shutdown ==
  /\ Moves("shutdown", "stopped")
  /\ steam' = FALSE
  /\ UNCHANGED << handles, closed, system, cancelled, launched, egress, reader, backoff >>

-----------------------------------------------------------------------------
(***************************************************************************)
(* The egress goroutine in Device.Read.  A packet it takes is routed, and  *)
(* Read is called again.                                                   *)
(***************************************************************************)
ReadChecks ==
  /\ egress = "check"
  /\ egress' = IF closed THEN "ended" ELSE "receive"
  /\ UNCHANGED << handles, closed, system, facade, launched, reader, backoff >>

\* ReceivePacket: a packet, none yet, a removed adapter, which StartEgress
\* takes for a regular end, or an error, which launches Stop.
ReadReceives ==
  /\ egress = "receive"
  /\ \/ ring > 0 /\ ring' = ring - 1 /\ egress' = "check" /\ UNCHANGED launched
     \/ ring = 0 /\ ~lost /\ egress' = "wait" /\ UNCHANGED << ring, launched >>
     \/ lost /\ egress' = "ended" /\ UNCHANGED << ring, launched >>
     \/ MayFail /\ egress' = "ended" /\ launched' = (launched \/ ~cancelled) /\ UNCHANGED ring
  /\ UNCHANGED << handles, closed, lost, facade, reader, backoff >>

\* WaitForMultipleObjects: Unblock, or news of the ring.
ReadWakes ==
  /\ egress = "wait"
  /\ event = "set" \/ ring > 0 \/ lost
  /\ egress' = "check"
  /\ UNCHANGED << handles, closed, system, facade, launched, reader, backoff >>

-----------------------------------------------------------------------------
(***************************************************************************)
(* The ReadLoop.                                                           *)
(***************************************************************************)
MinOf(x, y) == IF x < y THEN x ELSE y

LoopHead ==
  /\ reader = "head"
  /\ reader' = IF cancelled THEN "ended" ELSE "poll"
  /\ UNCHANGED << handles, closed, system, facade, launched, egress, backoff >>

\* idle begins: the delay of the first empty poll is the least.
LoopFindsNothing ==
  /\ reader = "poll" /\ reader' = "sleep"
  /\ cur' = IF cur < MinIdle THEN MinIdle ELSE cur
  /\ UNCHANGED << handles, closed, system, facade, launched, egress, silence >>

\* gotPacket: a control message is handled, data goes to Write.  Faulty
\* variant: the delay stays as long as it was.
GotPacketSlowly == silence' = 0 /\ UNCHANGED cur
GotPacket == cur' = MinIdle /\ silence' = 0

LoopReceives ==
  /\ reader = "poll" /\ reader' \in {"head", "check"}
  /\ GotPacket
  /\ UNCHANGED << handles, closed, system, facade, launched, egress >>

\* idle ends by its timer, and then the delay grows, or by the context.
\* Faulty variant: the delay has no maximum.
GrownForEver == 2 * cur
Grown == MinOf(MaxIdle, 2 * cur)

LoopSlept ==
  /\ reader = "sleep" /\ reader' = "head"
  /\ cur' = Grown
  /\ silence' = MinOf(MaxIdle, silence + cur)
  /\ UNCHANGED << handles, closed, system, facade, launched, egress >>

LoopRoused ==
  /\ reader = "sleep" /\ cancelled /\ reader' = "head"
  /\ UNCHANGED << handles, closed, system, facade, launched, egress, backoff >>

\* Write: a closed device refuses, an open one takes the packet.
WriteChecks ==
  /\ reader = "check"
  /\ reader' = IF closed THEN "head" ELSE "send"
  /\ UNCHANGED << handles, closed, system, facade, launched, egress, backoff >>

WriteSends ==
  /\ reader = "send" /\ reader' = "head"
  /\ UNCHANGED << handles, closed, system, facade, launched, egress, backoff >>

-----------------------------------------------------------------------------
(***************************************************************************)
(* The operating system.                                                   *)
(***************************************************************************)
SystemSends ==
  /\ session = "open" /\ ~lost /\ ring < MaxRing
  /\ ring' = ring + 1
  /\ UNCHANGED << handles, closed, lost, facade, launched, egress, reader, backoff >>

\* The adapter is removed; what is in its ring is gone.
SystemRemoves ==
  /\ MayLose /\ session = "open" /\ ~lost
  /\ lost' = TRUE /\ ring' = 0
  /\ UNCHANGED << handles, closed, facade, launched, egress, reader, backoff >>

-----------------------------------------------------------------------------
StartStep == OpenAdapter \/ StartSession \/ CreateEvent \/ NewClient \/ Spawn
StopStep == Cancel \/ Mark \/ Signal \/ Wait \/ Close \/ Shutdown
EgressStep == ReadChecks \/ ReadReceives \/ ReadWakes
ReaderStep ==
  \/ LoopHead \/ LoopFindsNothing \/ LoopReceives \/ LoopSlept \/ LoopRoused
  \/ WriteChecks \/ WriteSends

EngineNext ==
  StartStep \/ Claim \/ StopStep \/ EgressStep \/ ReaderStep \/ SystemSends \/ SystemRemoves

EngineSpec == EngineInit /\ [][EngineNext]_engineVars

\* Goroutines go on, blocked reads return when their event is set, timers
\* fire, and a launched Stop is run.  The user need not stop anything.
EngineFairness ==
  /\ WF_engineVars(StartStep) /\ WF_engineVars(StopStep)
  /\ WF_engineVars(launched /\ Claim)
  /\ WF_engineVars(EgressStep) /\ WF_engineVars(ReaderStep)

EngineFairSpec == EngineSpec /\ EngineFairness

-----------------------------------------------------------------------------
\* While a goroutine of the engine runs, every handle and the bridge are
\* there: no order of a wake-up, a packet in flight, a write and a removed
\* adapter frees something in use (device_windows.go l.167-170,
\* steambridge_facade.go l.188-197).
NothingFreedInUse ==
  ~Returned(egress) \/ ~Returned(reader) =>
    adapter = "open" /\ session = "open" /\ event \in {"unset", "set"} /\ steam

\* A Start that fails, wherever it does, leaves nothing open behind, and
\* neither does a Stop (device_windows.go l.90-105, 167-180;
\* steambridge_facade.go l.103-107).
NothingLeftOpen ==
  pc \in {"failed", "stopped"} =>
    adapter # "open" /\ session # "open" /\ event \notin {"unset", "set"} /\ ~steam

\* The ReadLoop pauses for as long as it has been silent, from MinIdle up to
\* MaxIdle: no order of packets and empty polls makes it slower than that
\* after a packet, or faster in a long silence (backoff.go l.30-54).
PauseFollowsSilence ==
  reader = "sleep" => cur = MinOf(MaxIdle, silence + MinIdle)

\* Stop returns, and so does the Stop an abnormal exit launches: neither a
\* blocked read, nor one that never has to block, nor a sleeping ReadLoop
\* misses its wake-up (device_windows.go l.117-147, 160-165).
EngineStops == pc \in Stopping \/ launched ~> pc = "stopped"

\* The engine keeps the contract.
Phase ==
  IF pc \in Opening THEN "closed"
  ELSE IF session # "open" \/ ~steam THEN "freed"
  ELSE IF pc = "running" THEN "open" ELSE "draining"
Alive == {g \in {"egress", "reader"} : ~Returned(IF g = "egress" THEN egress ELSE reader)}

Contract == INSTANCE EngineContract
  WITH Users <- {"egress", "reader"}, phase <- Phase, users <- Alive

\* (steambridge_facade.go l.120-199)
KeepsContract == Contract!ContractFairSpec
=============================================================================
