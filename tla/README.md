# SteamBridge in TLA+

TLA+ models of SteamBridge, the TLC runs that check them on small instances, and
theorems about them checked by TLAPS. SteamBridge tunnels IP packets between
machines over Steam's peer-to-peer network: every machine runs one *node*, any
node can be a host that hands out addresses and a guest that asks for one.

Paths and line numbers below are relative to the repository's root.

## 1. Inventory of the system

| part | code | state it keeps | operations |
|---|---|---|---|
| address pool | `internal/ipam/pool.go` | next fresh host number, lease per peer, FIFO of freed addresses, a mutex | `Allocate`, `ReleaseBySteamID` |
| client (control plane) | `internal/steam/client.go` | known peers, pending joins, own address, the pool | `Join`, `joinTimeout`, `joinRetry`, `resolveJoin`, `ReadLoop`, `RespondToJoinRequest`, `Disconnect` |
| idle backoff | `internal/steam/backoff.go` | the current delay | `gotPacket`, `idle` |
| router | `internal/router/router.go`, `table.go` | address -> peer table, allowed ports, firewall flag | `HandleIngress`, `StartEgress`, port and firewall setters |
| packet inspection | `internal/dpi/inspector.go` | none | `IsValidLan`, `IsAllowedPort`, `IsReliable` |
| engine life cycle | `internal/facade/steambridge_facade.go` | running flag, TUN, client, cancel function, wait group | `Start`, `Stop`, `Join`, abnormal exit |
| native bridge | `cbridge/steam_bridge.cpp` | initialised flag, queue of session requests, one slot for a friend's join | Steam callbacks and the `Bridge_*` functions |
| TUN device | `internal/tun/*` | the interface and its address | `SetIP`, `Read`, `Write`, `Unblock`, `Close` |
| dashboard | `app.go`, `frontend/pages/index.tsx` | connection status per peer, prompts; last status, busy flag, polls under way | events of the engine, buttons, polling |
| command line | `cmd/steambridge/main.go`, `main.go` | none | `Start` in a goroutine, `Stop` on a signal |

How they interact. The facade creates a TUN device, a router and a client for
each `Start` and runs two goroutines, the router's egress loop and the client's
`ReadLoop`. The `ReadLoop` polls the native bridge, which owns Steam's callbacks,
and handles every message in turn: data goes to the router, control messages
drive the pool, the interface and the pending joins. `Join` is called by the
dashboard, or by the `ReadLoop` itself for a friend's click, and leaves two
goroutines behind, a timeout and a retry. Results go back as callbacks, which
`app.go` turns into events for the dashboard. `Stop` has five callers: the dashboard's button, its
closing window (`App.shutdown`), the command line's signal handler, and the two goroutines of an
engine that fails; the dashboard keeps only the first apart from its `Start`.

What is hard: a join is resolved by whichever of an offer, a refusal, a
departure and a timeout comes first, while retries go on; one message type,
NACK, means two things; messages to a node that has not accepted the session are
dropped; a peer that crashes says nothing; `Start`, `Stop` and the goroutines of
an earlier life overlap; the routing table remembers peers the pool has
forgotten. `PROJECT.json` lists each hazard at its line with the properties aimed
at it.

What makes each part correct:

- pool: no address has two holders, none is lost, a refusal means exhaustion,
  freed addresses are reused oldest first, a peer frees only its own lease;
- handshake: only a node's own refusal or departure costs it the address it adopted; nodes of
  one host have different addresses; a join is answered once and always ends; a
  departed guest leaves no lease;
- life cycle: what one `Stop` tears down is what its `Start` built, no goroutine
  uses freed resources, both goroutines end, and an engine that fails is stopped;
- device and idle loop: every handle outlives the reads and writes inside it, a `Start`
  that fails half-way closes what it opened, a blocked or sleeping goroutine is woken, and the
  loop's pause grows with the silence and no further than its maximum;
- data plane: a packet is delivered only under the sender's own address, egress
  goes to the holder of the address, the firewall decides on real ports;
- session gate: a session is open only with friends, with hosts the user joins and with
  peers the user accepted; the user is asked about every stranger that keeps trying;
- dashboard: a join under way is shown as pending, and only while it is under way;
- controls: the dashboard runs no `Start` beside a `Stop` of its own, the buttons come back, and
  the switch, the ports, the peers and the status end up showing what the engine does.

## 2. Modules

| module | what it is |
|---|---|
| `Ipam` | the pool's two operations as operators on a record, and what "sound" means of it |
| `LeaseService` | the abstract promise of a pool: renew, grant any free address, refuse only when full, give back |
| `IpamPool` | one pool under arbitrary calls; refines `LeaseService` |
| `IpamProofs`, `IpamPoolProofs` | lemmas about the operators; theorems about the pool |
| `JoinHandshake` | the control protocol among any number of nodes |
| `JoinHandshakeProofs` | types, pools, pending joins; the addresses: kept, not shared, recorded as configured; departures |
| `Overlay` | the data plane of every node, on top of `JoinHandshake`: routing table, firewall, packets |
| `OverlayProofs` | types, how addresses are bound, and where routes lead |
| `Dpi` | packet inspection byte by byte, against packets built from their fields |
| `DpiProofs` | the bytes of a packet, and the three decisions |
| `Lifecycle` | `Start` and `Stop` access by access, and the goroutines around them |
| `LifecycleProofs` | types and the wait group; a life at a time where `Start` does not overlap |
| `EngineContract` | the abstract promise of one life of the engine: build, run its goroutines, drain, free |
| `Engine` | one life down to the handles of the Windows device and the pauses of the `ReadLoop`; refines `EngineContract` |
| `EngineProofs` | its invariants and the refinement |
| `Dashboard` | session requests, joins, callbacks and events as one user sees them |
| `Panel` | the dashboard's controls: buttons, switch, ports, and the polls behind them |
| `DashboardProofs` | of both: the session gate, the first join, the panel's types and its two long calls |
| `MCIpamPool`, `MCJoinHandshake`, `MCOverlay`, `MCDpi`, `MCLifecycle`, `MCEngine`, `MCDashboard`, `MCPanel` | the small instances TLC checks |

`JoinHandshake` uses the operators of `Ipam`, one pool per node; `Overlay` EXTENDS
`JoinHandshake` and takes its whole next-state relation as `ControlStep`, so every
interleaving of data with the handshake is there. `Dpi`, `Lifecycle`, `Engine`, `Dashboard`
and `Panel` stand alone: what they are about is finer than a step of the others.

### The pool and the code

`Pool` is the struct with its two maps folded into one function `leases` (a peer
without a lease maps to `NoIP`, 0, as the code answers). The /24 arithmetic is
left out: an address is its host number, `FirstHost .. MaxHost` (2..254 in the
code). `Granted` is what `Allocate` returns and `AfterAllocate` what it leaves;
the mutex makes a call one step. `reply` in `IpamPool` records the last call, so
that properties can speak about answers.

### The handshake and the code

One `JoinHandshake` step is one handler, or the part of one between two points
where another goroutine can run:

- `CheckJoin` / `Join` / `JoinRequest`: the facade's look at the running flag, registering the
  pending join under the lock, then sending and starting the timers; a `Stop`, and even the next
  `Start`, may come in between. `LoopJoin` / `LoopRequest` are the `ReadLoop`'s own call for a
  friend's click, which looks at no flag and goes on until the loop sees that it is cancelled.
  `MayJoin` says whom a node joins in the one way, `MayClick` in the other.
- `RetryTick` / `RetrySend`: `joinRetry` looks under the lock and sends after
  releasing it.
- `OnRequestIP`, `OnOfferIP`, `OnAckIP`, `OnNackIP`, `OnDisconnect`: the cases of
  the `ReadLoop`'s switch, each with every call it makes. `OnOfferIP` is split
  at the looks at the interface: while `loop[n]` is a `Verifying` record, timers and users go on
  and the loop handles nothing else; `VerifyFinds` is the look that shows the address, and
  `Confirm` the acknowledgement, the record and the result that follow, whatever `Start` has done
  to the interface since. The three are one step because nothing another goroutine does
  between them depends on which of them has happened.
- `Start`, `RequestBootstrap`, `AssignHostIP`, `RecordHostIP`: `Start` from the point where the
  `ReadLoop` runs. It either asks the `--peer` or sets the host's own address on the
  interface and then records it (facade l.150-162); the loop handles messages in
  between. `life[n]` says how far it is.
- `Ask`, `Accept`, `Deny`, `Drop`: Steam's session gate as `client.go` l.253-266,
  l.143-152 and `cbridge/steam_bridge.cpp` l.46-54 use it.
- `Leave` / `Close`: `Stop`'s broadcast and its end; in between the `ReadLoop` still runs
  (`Running`) although the flag is clear (`Up`). A `Stop` in the middle of `Start` is the
  subject of `Lifecycle`.
- `Reopen` is the next `Start` of the same process, with a new `Client`; the retry
  goroutines of the old one are `ghosts`: they go on asking (`GhostAsk`), now through the
  new bridge, until the old client's timeout ends them (`GhostEnds`). `Crash` ends the
  process at any point and leaves no ghosts.

`resolveJoin` deletes the entry under the lock and calls back after releasing
it; the model takes both as one step, so the order of callbacks is not a
statement of this module. `joins`, `results`, `outcome` count calls and callbacks.

Six history variables, which no guard of an action reads: `restarts` (in a bound) and `source`, who
offered the recorded address; `gaveUp`, whom a node ever refused or left; `told`, whom it has told
that it leaves and not asked since; and `spoiled` and `firm`, which say what a *farewell* (a NACK or a
Disconnect) may still undo. `h` is in `spoiled[n]` from a farewell of `n` to `h` until `h` makes `n` an
offer after it has read every farewell of `n`, with no older offer left to read; `firm[n]` is the host
whose offer `n` adopted while it was not spoiled, until a farewell of `n` to it. Reordering such as a
first offer refused, a second adopted and the refusal read last leaves `firm[n]` empty, and is the
subject of a run of its own (`join_refused`).

Transport: `net[m, n]` is the reliable, ordered channel from `m` to `n`; a node
takes messages only from peers whose session it accepted; sending accepts; a
message that has raised its session request may be dropped at any time until the
session is accepted. `SetIP` may fail before it touches the interface, after
flushing the old address, or after adding the new one (`device_linux.go`
l.113-132); the constant `SetIPOutcomes` says which of these an instance allows.

### The data plane and the code

`table[n]` is the routing table of node `n`'s router, `data` the packets between
nodes, which are unreliable and so a set: any may be lost, or overtaken by
control messages. `Egress` is one round of `StartEgress`: the operating system
sends from the address of the interface, the firewall looks, and the table or the
list of known peers decides who gets it. `Ingress` is the data case of the
`ReadLoop` with all of `HandleIngress`: firewall, binding, writing, and the sender
counted as a peer whatever the router said. `Table.Delete` and `Table.Update` have
no caller outside the tests and no action. `heard` is a history of what was written
from which address. Packets that inspection drops for their shape change nothing
here and are the subject of `Dpi`.

### Inspection and the code

`IsValidLan` and `IsAllowedPort` read a sequence of bytes at the code's offsets. The
reference `Layout` builds that sequence from header fields the way IPv4 does, with
the ports after the options, and the properties compare what the code read with
what was put in. `filler` fills every other byte with half an allowed port, so a
check that reads a wrong offset finds a port that is not there.
`IsReliable` has no caller and is left out.

### The life cycle and the code

The facade's fields other than `running` are plain, shared variables: `Start` and `Stop` are a step
for each access another goroutine can notice, in the code's order. What one `Start` creates is a
*generation*; `tunDev`, `client` and `cancelFunc` name the generation their field now holds, so a
`Stop` that reads a field a second time can find another generation there. `EgressEnds` is the read
of a device failing, because it was unblocked, closed, deleted by the `NewTUN` of the next
generation (`device_linux.go` l.51-59) or broken; with an error, if its context is not cancelled, it
launches a `Stop` of its own ("ended"), and with `io.EOF` it does not ("gone"). A `ReadLoop` ends by
its context alone, since `Bridge_Receive` never returns a negative number. `Bootstrap` says whether
`Settle`, the end of `Start`, asks a `--peer` through the bridge. `misuse` records who called a
bridge that is down (`Start`, its request to the `--peer`, `Stop` or `Join`), and calls of a client
that is nil; the retries of a join, which also outlive `Stop`, are the ghosts of `JoinHandshake`.
`Overlap` says whether a `Start` may run beside other calls; `Stop`s may always meet. Races between
two accesses (the same variable read and written without a lock) are taken in their order; torn
reads and the wait group's panic on reuse are left out.

### The engine and the code

`Engine` opens the device that `Lifecycle` takes as a whole. `pc` goes through `NewTUN`'s
three calls (adapter, session, event; `device_windows.go` l.83-115), `NewClient`, the `go`
statements, and `Stop`'s cancel, flag, event, `wg.Wait`, `Close` and `Shutdown`; each of the calls of the
system may fail and runs the error path the code has at that place. `Read` is three steps, for
`Unblock` can fall between its look at the flag, its `ReceivePacket` and its wait; `Write`
is two. `ring` and `lost` are the operating system's: packets may arrive and the
adapter may be removed at any time. The `ReadLoop` holds `idleBackoff`: `LoopFindsNothing`,
`LoopSlept` and `LoopRoused` are `idle`, before and after its select; `GotPacket` is `gotPacket`.
`silence` is a history variable: how long the loop has slept since its last packet.
`EngineContract` knows neither handles nor steps: shared things are there before the
goroutines and gone after them, and a stopped engine is freed in the end. `Phase` and
`Alive` map one to the other.

### The dashboard and the code

One node's user, its `ReadLoop` and Steam. Steam's callbacks run inside
`Bridge_RunCallbacks`, so `Post` and `Click` happen at one point of the loop's round;
`TakeSlot`, `Drain`, `Receive` are the rest of the round. `Begin` is `Join` up to its
timers, and what `JoinHandshake` takes in smaller steps is one here; what is a step of its own here
is every callback: `Say` (the `ReadLoop`), `TimeoutSays` (a `joinTimeout` past
`resolveJoin`'s lock) and the second half of `UserJoin` (`onJoinRequest`). Each appends the event
`app.go` emits, `Deliver` is the listener of `index.tsx`, and `Respond`,
`RespondToJoinRequest`, `Answered` are a click, the call and its return in
`handleRespond`. A `joinTimeout` sleeps 45 seconds before it does anything, so it does not fire
while its own `Join` is about to call `onJoinRequest` (`AboutToSay`); no other order is assumed of
timers and callbacks. `overtaken` records whose result was told before its join was announced. The
engine runs throughout.

### The panel and the code

`HandleStart`, `HandleStop`, `StartBridge`, `StopBridge` and `CallReturns` are the two long calls:
the click, the goroutine of `app.go` in the facade, and the handler that goes on when its promise
settles, refreshing before it gives the button back. A refresh is four calls (`index.tsx` l.63-80),
for status, peers, firewall and ports: `Read` is one of them, in any order, and `Apply` sets the
state with what they returned, so what is shown may never have been true at one time. Polls come
every two seconds whether or not the last one has returned. `router` holds the settings of the
facade's router and the peers it has heard (`PeerSends`): a `Start` replaces it, a `Stop` keeps it,
and before the first one there is none (`exists`). The switch is optimistic, a port waits for its
call and reads the list anew. `EngineDies` is the abnormal exit with the `Stop` it launches;
`CloseWindow` and `Shutdown` are the end of the dashboard and the `Stop` that `app.go` l.77-80 calls
then, beside whatever the dashboard has called before. `crossed` records that one of these two met a
`Start`.

## 3. Runs

| run | instance | shows |
|---|---|---|
| `pool` | 4 peers, 3 addresses | the pool's invariants, FIFO reuse, refinement of `LeaseService` |
| `join_again` | host and guest that joins by a friend's click; either may stop and start again in its process, or crash, once; the user may refuse | the lease kept, recorded = configured, departures free leases |
| `join_retry` | host and a guest that bootstraps from it and joins it in two overlapping attempts, a host that may crash once, a failing `SetIP`; no timeout assumed to fire | joins stay timed; no second answer; the lease is kept; the retries alone resolve the join |
| `join_refused` | the same guest, two requests, no crash | **violation** of `client.go:359` |
| `overlay_star` | host and two guests that bootstrap from it, two addresses, firewall changes, a departure | addresses not shared, one voice per address, bindings earned, routes lead to holders |
| `overlay_recycled` | a guest leaves, its address goes to another | **violation** of what `router.go:63` claims |
| `dpi` | packets at the boundaries, cut to 13 lengths, two ports | inspection agrees with the fields |
| `lifecycle` | two callers, three lives, two failures, joins; a `--peer`; no `Start` beside a caller's `Stop` | nothing freed in use, nothing left behind, calls find a bridge, `Stop` returns, a failed egress loop is followed by a `Stop` |
| `lifecycle_overlap` | `Start` and `Stop` side by side | **violation** of `steambridge_facade.go:191` |
| `engine` | one life with every failure, packets, a removed adapter, the code's delays | handles outlive their users and nothing else, every sleeper is woken, the pause follows the silence, `EngineContract` is implemented |
| `dashboard` | a friend the user joins, a stranger; two requests of each on their way | the gate holds, joins under way, their ends and strangers are shown |
| `panel` | one port, one peer, a poll beside a button's refresh, two acts of the user, one abnormal exit, a window that may close | the long calls stay apart, the buttons come back, the panel settles on the truth |

Where a passing property names an exception, or a condition a reader may not expect, one more
configuration per case drops it and ends in the counterexample. They are not among the runs;
`tlc -config <cfg> <module>` repeats each in seconds:

| configuration | property it refutes | finding |
|---|---|---|
| `MCDashboardStuck.cfg` | `StatusIsTheJoins` | 3 |
| `MCJoinTurnedAway.cfg` | `RefusedIsUnused` | 5 |
| `MCJoinCrossed.cfg` | `OfferReplacesHostIP` | 6 |
| `MCJoinLeft.cfg` | `StoppedHoldsNothing` | 7 |
| `MCDpiInfrastructure.cfg` | `InfrastructurePasses` | 8 |
| `MCDpiSources.cfg` | `LanSourcesOnly` | 9 |
| `MCLifecycleBootstrap.cfg` | `PeerIsAskedThroughABridge` | 10 |
| `MCLifecycleEof.cfg` | `AnyDeathStops` | 11 |
| `MCDashboardAgain.cfg` | `AskedOnce` | 12 |

Bounds. Four peers and three addresses let a pool be full with one peer waiting,
and let two freed addresses wait in a different order than they were leased.

The handshake runs have a host, a guest and one address: grant, renewal, a refused prompt, departure
and reuse occur there; exhaustion and guests that compete are left to `pool`, the overlay runs and
the proofs. `MaxJoins = 2` in `join_retry` is the least that overlaps two attempts; `MaxRestarts =
1` lets one node live again, which is what makes the other one's memory of it stale; `MaxInFlight =
1` only holds back a *retry* while its queue is not empty (the channel itself has no bound).
`SetIPOutcomes` is success alone in `join_again`, as `RecordedIsConfigured` demands, and in
`join_retry` success and the failure that has already changed the interface; looks at the interface
that miss an address it has (`VerifyMayFail`) are left to the proofs, which need no such condition
for `AddressKept`, `PendingIsTimed` and `NoSecondResult`. `MaxData` bounds the packets under way to
what a binding and its rival need.

In `Lifecycle` three generations let one life meet the remains of the one before
while another follows, and two failures allow an error of `Start` and an abnormal exit in one
behaviour; the constant `Overlap` says whether `Start` may meet another caller. The passing
run keeps a `Start` apart from the `Stop`s of callers and from those an earlier engine has
launched; a `Stop` of its own engine may run beside it, and any number of `Stop`s may meet. The
violation shows what other overlaps do. `Engine` has no bound
but the two packets its ring holds; its delays are the code's.

In `Dashboard`, `MaxPosts = 2` puts two requests or prompts of one peer on their way at
once, which is what a repeated post can do; one answer and one join of a host meet them in
every order. In `Panel` two acts let the user start and stop, or change a setting before, during or
after a start; one abnormal exit, one peer and one poll beside the refresh of a button let what is
read be overtaken by each kind of change.

Deadlock is checked for the pool, `dpi` and the dashboard. It is off for the panel, whose window may
close, for the handshake
and the overlay, where a set of nodes that have all joined, or left, has nothing more to do, and for
`Lifecycle` and `Engine`, where what has been stopped may stay stopped.

Fairness. `RetryFairness` assumes none of the timeouts; it says that nodes are started, `ReadLoop`s
poll, retries tick, Steam asks and users answer. `GoesOn` of `Lifecycle` says that a goroutine
inside `Start` or `Stop` goes on, that a launched `Stop` runs, that a `ReadLoop` looks at its
context (its idle delay has a maximum) and that a read of a device that is gone returns.
`EngineFairness` says the same of `Engine`, where that a read returns is no assumption: only that a
wait ends once its event is set or its ring has news. Nobody has to call, and nothing has to fail.
`DashFairness` is that of the `ReadLoop`, the delivery of events and the goroutines of a join;
`PanelFairness` says that calls of the engine return and that polls are made and answered; but once
a `Start` has met a `Stop` it did not know of (`crossed`) that `Stop` may wait for a `ReadLoop`
nobody cancels, and of no `Stop` is it assumed any more that it returns. `ControlsComeBack` says so;
`PanelSettles` needs no `Stop` to return. All of these are weak fairness: each step stays enabled
until it happens. The one strong fairness is that of `Post` for strangers: `cbridge`'s comment
(`steam_bridge.cpp` l.49-51) says Steam posts the request of a peer that keeps trying again and
again, and the step is enabled only while the callbacks run.

## 4. Theorems

All for every set of peers, ports, address range, choice of users and faults, and bound, from
the assumptions of the modules: `PoolAssumption` (the range is `FirstHost .. MaxHost` with
`FirstHost > 0`), `HandshakeAssumption` (the constants have their types, nobody bootstraps from or
joins itself, and the host's own address is below the range), `EngineAssumption` (the least
delay is positive and no more than the greatest), and those of `Overlay`, `Dpi`, `Lifecycle`,
`Dashboard` and `Panel`, which give the constants their types (`DpiAssumption`: a packet is a
header whose fields have the widths of RFC 791). Six theorems have a hypothesis of their own; each
names it, and each was refuted by TLC, or by a run of this project, without it.

- `TypeCorrect`, `NeverDoublyLeased`, `BooksAlwaysBalance`, `RefusalMeansFull`
  (`IpamPoolProofs`): the invariant is `PoolSound` plus the statement about the last
  refusal. `NoDoubleLease` alone is not inductive: it needs that the free-list
  holds no leased address and lists none twice, and that everything below the counter is
  leased or listed (so the counter is fresh). `AllocateSound` and `ReleaseSound`
  carry `PoolSound` through the two operations and are reused by the handshake.
- `ReuseIsOldestFirst`, an action property: a call takes at most the head from the free-list
  (`OnlyTheOldestLeaves`).
- `PoolImplementsService`: each call is a step of `LeaseService` on the leases; the
  free-list and the counter only find a free address (`GrantedIsFree`).
- `HandshakeTypes`, `PendingIsAlwaysTimed`,
  `NoJoinAnsweredTwice` (`JoinHandshakeProofs`): step by step; the last two are
  inductive with the types alone, through `AnswerSteps`, which sorts the actions by
  what they do to joins, and `ResolveEffect`, which says what a resolution changes.
- `AddressIsKept`, `AddressesAreDistinct` (`JoinHandshakeProofs`): the invariant
  `AddressInv` follows an address on its way: every offer in the network, every
  offer being verified and every recorded address of a `firm` host is *backed* by the pool of the
  node that granted it, as long as that host has not restarted and is not spoiled for the
  guest; and every NACK or Disconnect in the network comes from a node
  for which the receiver is spoiled. `StepKeepsLeases` is the heart: a pool frees a
  lease only at the word of its holder. `RefreshIsSound` is the other half: when an offer starts
  afresh there is no older offer and no farewell that could still contradict it.
  `AddressesAreDistinct` then follows from `PoolSound` (`PoolsStaySound`).
- `RecordMatchesInterface`: the invariant `ConfigInv` says for each point of `Start` and
  of an offer's verification what the interface has and what is recorded (`Agrees`), because between
  `SetIP` and the record the two differ, and because a `Start` that crosses an offer may leave either
  address on the interface and the other in the record (`Crossed`). Hypothesis `SetIPNeverFails`: a
  failing `SetIP` may leave an address that nobody records, and the code does not undo it
  (`join_retry` runs with such failures).
- `DepartureFreesLeases`: `PartingInv` follows the last message. Whoever holds a lease of a host that
  is not itself `Gone` is heard by it (`HoldersAreHeard`); of a guest that has told the host it leaves, and
  not asked since, every request still on its way and every lease is followed by the Disconnect
  (`LeasesAreClosing`). Hypothesis `RefusersDoNotAsk`: a node whose user may
  refuse strangers asks nobody for an address. Without it TLC finds a host that itself
  joins its guest: the guest's session prompt, which the host's own sending has made stale, is
  refused after all, which closes the session under the guest's Disconnect, and the lease stays.
  What a guest asks for after its Disconnect is outside the theorem, and stays leased (`MCJoinLeft.cfg`).
- `OverlayTypesHold`, `OneVoice`, `BindingsAreEarned` (`OverlayProofs`): the handshake's
  types carry over because `ControlStep` is its next-state relation and a data step
  changes no more of it than known peers and sessions. `OneVoicePerAddress` is not
  inductive; `TableRemembers` (whoever was heard from an address is who the table
  binds to it) is, together with the types.
- `RoutesAreTrue`: `RouteInv(h)` carries the backing of `AddressInv` on from the record to what a
  packet says and a table binds: each leased address on an interface, in a packet or in a table is
  kept for its holder by the pool of `h`, unless the holder ever gave `h` up (`RoutesBacked`,
  `KeptFor`), and nobody is asked but whom the node was told to ask (`OnlyTheMeantAreAsked`).
  Hypothesis `ServesAlone(h)`: nobody joins or bootstraps from another host than `h`. Without it TLC
  finds a chain of hosts in which the middle one crashes, forgets which addresses it granted and is
  granted one of them by the first.
- `FirewallIsExact`, `LanIsExact`, `SentPassesEverywhere` (`DpiProofs`): for every header, with
  and without options, every place it is cut at and every list of ports. `BytesOf` says what each byte
  of a cut packet is, `HeaderOf` and `PortsOf` what the code's offsets find in them; the rest is the
  arithmetic of half bytes, words and flags.
- `LifecycleTypes`, `WaitGroupIsExact` (`LifecycleProofs`): however `Start` and `Stop` overlap, the
  counter is the number of goroutines, of all lives, that have not returned. The invariant
  `CountInv` needs that only the life just being built can get new ones (`FutureIsEmpty`).
- `StopFreesNothingInUse`, `FlagIsTrue`, `NoCallMeetsADeadBridge`: `LifeInv` adds `PhaseInv`: one call
  is between the flag and its end at a time (`OneAtWork`), what exists at each of its points
  (`Built`, `TornDown`), what exists when none is (`Settled`), and that nothing of an earlier life is
  left (`PastIsGone`). Hypothesis `Overlap = FALSE`: no `Start` beside another caller;
  `lifecycle_overlap` shows what happens otherwise. `NoCallMeetsADeadBridge` adds `SettlingInv`: while a
  `Start` has yet to ask its `--peer`, only the thread of its own generation can be in a `Stop`, and only
  after the egress loop it spawned has failed.
- `EngineTypes`, `HandlesOutliveUsers`, `EverythingIsClosed`, `PausesFollowSilence`
  (`EngineProofs`): the invariant `EngineInv` says, for each point of `Start` and `Stop`,
  which handles are open (`HandlesFollow`), where goroutines can exist (`UsersFollow`),
  and how the delay depends on the silence, before the first pause too (`DelayFollows`).
- `EngineKeepsContract`: every step of `Engine` is a step of `EngineContract` or changes
  nothing the contract sees. The fairness of the contract is TLC's part.
- `GateAlwaysHolds` (`DashboardProofs`): nobody has a session without having been agreed to. It needs
  that whoever Go knows, and whoever a join is pending for, has been agreed to as well, for a message
  to any of these opens its session.
- `FirstJoinIsShown`: the invariant `EntryInv` follows the first join of a friend from the click to its
  end. A friend is never asked about (`NotAsked`); before the first join nothing is said of it, by a
  goroutine, a queued event or the `ReadLoop` (`NothingYet`); until it has ended all that is said of it is
  that it is joined, and that is shown or on its way (`FirstJoin`). The first join is special: the
  callbacks of the next one race with those of the last (finding 3).
- `PanelTypes`, `CallsStayApart`: `HandlersFollow` ties the busy flag and the calls
  to the handler that awaits them, whatever the polls, the engine and the closing window do.

So every safety property of the passing runs but `AnsweredIsNotPending` is proved, the hypotheses above
granted. Only model-checked, since liveness under fairness is out of the prover's reach, are
`PendingResolves`, `StopReturns`, `EngineDeathStops`, `EngineStops`, the liveness of `KeepsContract`,
`StrangerIsShown`, `ControlsComeBack` and `PanelSettles`. The other way round, the wait group and the
type invariants of `Overlay` and `Panel` and the soundness of every node's pool are proved and not run.

## 5. What the runs found

What a comment or the README says and the program does otherwise. 1, 2 and 4 are runs; the others stand
in a passing property, which says what the program does instead or names them as its exception (5 and 12
aside), and in a configuration of section 3:

1. `overlay_recycled`: `Table.Delete` is never called. The pool gives a departed guest's
   address to the next one, the table still binds it to the departed peer, and the new
   holder's packets are refused as poisoning, while packets for it go to the departed.
2. `lifecycle_overlap`: `running` is cleared at the beginning of `Stop` and set at the beginning
   of `Start`, so it guards neither from the other: a `Start` during a `Stop` works with a
   bridge that the `Stop` then shuts down.
3. `dashboard`: `Join` calls `onJoinRequest` after it has sent the request, so the
   host's answer can reach the dashboard first; the "pending" that follows it
   is replaced by nothing. `AnsweredIsNotPending` excepts the joins this happens to.
4. `join_refused`: two requests of one guest bring it two offers of one address. It refuses the first,
   whose `SetIP` failed, and adopts the second; the host, which reads the refusal last, frees the
   address in use and may lease it to somebody else.
5. `AddressKept`: a NACK releases the sender's lease (l.363) even when it answers our own request.
   Of two nodes that are guests of each other, one whose pool is exhausted turns the other away
   and thereby loses the lease it is using.
6. `join_again`: an offer that is being verified while `Start` assigns the host's address is recorded
   and acknowledged although the interface is back at 10.8.0.1. In the other order the offered address
   stays on the interface and 10.8.0.1 is recorded. `RecordedIsConfigured` names both as its exception.
7. `join_again`: between the Disconnect and the end of the `ReadLoop` (facade l.175-189) a friend's click
   still asks for an address; so may a `Join` that looked at the flag before the `Stop`, or a
   retry. The host leases it, and nothing frees it. `DepartureFrees` is about the others.
8. `dpi`: the firewall drops what is neither ICMP, TCP nor UDP; `README.md:64` says it lets it through.
   `FirewallReadsThePorts` says that such a packet does not pass.
9. `dpi`: only the destination has to be private (`LanByDestination`); `README.md:38` and `:48` speak of
   the source.
10. `lifecycle`: the goroutines run before `Start` asks the `--peer`; if one fails at once, its
    `Stop` is done before `Start` sends. It is the exception of `CallsMeetABridge`.
11. `lifecycle`: on Windows a removed adapter makes `Read` return `io.EOF` (`device_windows.go` l.132),
    which `StartEgress` takes for a regular end: the egress goroutine is gone, no `Stop` follows and the
    status stays "running". In `Engine`, too, which shows that a `Stop` still works afterwards.
12. `dashboard`: Go prompts for each queued request; only the dashboard's map merges them, where
    `steam_bridge.cpp:51` says that Go's peer map does.

Seen while modelling, by reading or by counterexamples that became a guard of a property:

- A prompt is answered by what the user clicks, not by what has become of the session meanwhile: a node
  that has joined the stranger it is asked about, and then refuses it, closes the session it joined by
  (`client.go` l.145-152), with what its peer has sent in it. See `DepartureFreesLeases`.
- A second `Join` of a host whose first is pending overwrites the one entry of
  `pendingJoins` (`client.go` l.133): two attempts share one callback, and the timeout of the
  first ends the second early. `NoSecondResult` therefore counts results, not attempts.
- The retry goroutine of a join looks only at `pendingJoins` (`client.go` l.118-124), so it reaches
  the bridge after `Stop` has freed it, where `steambridge_facade.go:191` says "no
  goroutines are touching these", or the bridge of the next `Start`.
- A `Stop` keeps the client, so `GetPeerStats` (`steambridge_facade.go` l.285-291), which the dashboard
  polls for every peer of the router it also keeps, reaches the bridge after its shutdown.
- A `Stop` launched by a dying engine may run so late that the user has stopped and started
  again: it then ends the new engine. The guard of `running` cannot tell the two lives apart.
- Settings belong to the router, and each `Start` makes a new one with the firewall off: what the
  user set is lost over a restart, and `SetFirewall` before the first `Start` is dropped
  while the switch shows it on until the next poll. `cmd/steambridge/main.go` l.57-68 sets the firewall
  after `Start` has returned, so packets flow unfiltered until then.
- A refresh is four reads; one torn by a `Start` combines the old router's firewall with the new
  status, and shows a firewall that is off as on until the next poll. `PanelSettles` is
  therefore about the end, not about every moment.
- A departed guest stays in the peers card, where `docs/e2e-checklist.md` l.15 expects it to
  disappear; the event `bridgeDisconnected` has no listener in the frontend.
- Every node without a bootstrap peer starts with 10.8.0.1. A packet it sends before its own
  host's offer binds 10.8.0.1 to it at its guests, who then refuse their real host's.
- A host that restarts has a fresh pool (`client.go` l.53-67) and leases addresses its earlier guests
  still use; nothing re-registers them. `AddressKept` is about hosts that did not restart.
- A `Join` between the claim of the
  flag and the creation of the client passes the guard with a nil client; with overlapping
  calls a `Stop` can wait for a `ReadLoop` whose context nobody cancels any more.

## 6. The plan that remains

In this order:

1. Theorems: `AnsweredIsNotPending`; the pools of `JoinHandshake` each implement `LeaseService`;
   which of the properties of `Lifecycle` survive overlapping calls; the types of `Dashboard` as a
   whole.
2. `Stop` and the abnormal exit in `Dashboard`, which shows one running node, and with them the
   clearing of the connections map.
3. A `Stop` in the middle of `Start` in `JoinHandshake`, which lets a node leave only when its
   `Start` has returned.

### Not modelled

Symbol loading (`internal/steam/bridge.go`, `loader_*.go`), flag parsing, logging, the byte layout
of control frames (the length check drops malformed frames, which no node sends), the bytes of
device I/O, rendering, the error banner and the copy buttons, and the development mock: none of them
keeps state the rest depends on. `Table.Update`, `Table.Delete` and `IsReliable` have no caller
outside the tests. A reliable send is taken to be accepted by Steam, whose failure `client.go`
l.218-219 only logs. `JoinHandshake` keeps at most one open prompt per peer (repeated ones are in
`Dashboard`), and sends a Disconnect to all peers in one step. The listener each `Bridge_Init` makes
(`steam_bridge.cpp` l.68) and no `Bridge_Shutdown` frees is left out. Torn reads of unsynchronised
fields and the wait group's panic on reuse are left out of `Lifecycle`, which takes racing accesses
in their order.
