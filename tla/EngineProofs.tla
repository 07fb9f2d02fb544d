---------------------------- MODULE EngineProofs ----------------------------
(***************************************************************************)
(* Theorems of Engine, for every delay, ring and fault of the system: what *)
(* the goroutines share outlives them, and the ReadLoop's pauses follow    *)
(* its silence.                                                            *)
(***************************************************************************)
EXTENDS Engine, TLAPS

\* What is open while Start or Stop stands where.
HandlesFollow ==
  /\ adapter = "open" <=> pc \in {"session", "event", "client", "spawn", "running",
                                  "cancel", "mark", "signal", "wait", "close"}
  /\ session = "open" <=> pc \in {"event", "client", "spawn", "running",
                                  "cancel", "mark", "signal", "wait", "close"}
  /\ event \in {"unset", "set"} <=> pc \in {"client", "spawn", "running",
                                            "cancel", "mark", "signal", "wait", "close"}
  /\ steam <=> pc \in {"spawn", "running", "cancel", "mark", "signal", "wait", "close",
                       "shutdown"}

\* Goroutines exist from Spawn to Wait.
UsersFollow ==
  /\ pc \in Opening \cup {"failed"} => egress = "none" /\ reader = "none"
  /\ pc \in {"close", "shutdown", "stopped"} => Returned(egress) /\ Returned(reader)

\* The delay is unset before the first pause, and follows the silence then.
DelayFollows ==
  /\ cur = 0 => silence = 0 /\ reader # "sleep"
  /\ cur # 0 => cur = MinOf(MaxIdle, silence + MinIdle)

EngineInv == EngineTypeOK /\ HandlesFollow /\ UsersFollow /\ DelayFollows

-----------------------------------------------------------------------------
\* The initial state satisfies the invariant.
LEMMA EngineInvInit == EngineInit => EngineInv
<1> SUFFICES ASSUME EngineInit PROVE EngineInv
  OBVIOUS
<1>1. /\ pc = "new" /\ adapter = "none" /\ session = "none" /\ event = "none"
      /\ ring = 0 /\ egress = "none" /\ reader = "none" /\ cur = 0 /\ silence = 0
  BY DEF EngineInit
<1>2. /\ closed \in BOOLEAN /\ lost \in BOOLEAN /\ steam \in BOOLEAN
      /\ cancelled \in BOOLEAN /\ launched \in BOOLEAN
  BY DEF EngineInit
<1>3. ~steam
  BY DEF EngineInit
<1>4. QED
  BY <1>1, <1>2, <1>3, EngineAssumption
  DEF EngineInv, EngineTypeOK, HandlesFollow, UsersFollow, DelayFollows, Opening

\* The delay stays between nothing and its maximum, and so does the silence.
LEMMA DelayRange ==
  ASSUME NEW x \in Nat, NEW y \in Nat
  PROVE  /\ MinOf(x, y) \in Nat /\ MinOf(x, y) <= x /\ MinOf(x, y) <= y
         /\ MinOf(x, y) \in {x, y}
  BY DEF MinOf

\* Doubling the delay keeps it in step with the silence it adds to.
LEMMA DelayGrows ==
  ASSUME EngineTypeOK, DelayFollows, reader = "sleep"
  PROVE  /\ Grown \in 1 .. MaxIdle
         /\ MinOf(MaxIdle, silence + cur) \in 0 .. MaxIdle
         /\ Grown = MinOf(MaxIdle, MinOf(MaxIdle, silence + cur) + MinIdle)
<1>1. /\ cur \in Nat /\ silence \in Nat /\ MinIdle \in Nat \ {0} /\ MaxIdle \in Nat
      /\ MinIdle <= MaxIdle /\ cur <= MaxIdle /\ silence <= MaxIdle
      /\ cur # 0 /\ cur = MinOf(MaxIdle, silence + MinIdle)
  BY EngineAssumption DEF EngineTypeOK, DelayFollows
<1>2. CASE MaxIdle < silence + MinIdle
  <2>1. cur = MaxIdle
    BY <1>1, <1>2 DEF MinOf
  <2>2. Grown = MaxIdle
    BY <1>1, <2>1 DEF Grown, MinOf
  <2>3. MinOf(MaxIdle, silence + cur) = MaxIdle
    BY <1>1, <2>1 DEF MinOf
  <2>4. MinOf(MaxIdle, MaxIdle + MinIdle) = MaxIdle
    BY <1>1 DEF MinOf
  <2>5. QED
    BY <1>1, <2>2, <2>3, <2>4
<1>3. CASE ~(MaxIdle < silence + MinIdle)
  <2>1. cur = silence + MinIdle
    BY <1>1, <1>3 DEF MinOf
  <2>2. CASE MaxIdle < 2 * cur
    <3>1. Grown = MaxIdle
      BY <1>1, <2>2 DEF Grown, MinOf
    <3>2. MinOf(MaxIdle, silence + cur) + MinIdle >= MaxIdle
      BY <1>1, <2>1, <2>2 DEF MinOf
    <3>3. MinOf(MaxIdle, silence + cur) \in 0 .. MaxIdle
      BY <1>1 DEF MinOf
    <3>4. QED
      BY <1>1, <3>1, <3>2, <3>3 DEF MinOf
  <2>3. CASE ~(MaxIdle < 2 * cur)
    <3>1. Grown = 2 * cur
      BY <1>1, <2>3 DEF Grown, MinOf
    <3>2. MinOf(MaxIdle, silence + cur) = silence + cur
      BY <1>1, <2>1, <2>3 DEF MinOf
    <3>3. QED
      BY <1>1, <2>1, <2>3, <3>1, <3>2 DEF MinOf
  <2>4. QED
    BY <2>2, <2>3
<1>4. QED
  BY <1>2, <1>3

-----------------------------------------------------------------------------
\* A step of Start keeps the invariant.
LEMMA StartKeepsInv ==
  ASSUME EngineInv, StartStep
  PROVE  EngineInv'
<1> USE DEF EngineInv, EngineTypeOK, HandlesFollow, UsersFollow, DelayFollows, Opening,
            Stopping, system, backoff, handles, Returned
<1>1. CASE OpenAdapter
  BY <1>1 DEF OpenAdapter
<1>2. CASE StartSession
  BY <1>2 DEF StartSession
<1>3. CASE CreateEvent
  BY <1>3 DEF CreateEvent, EndSession
<1>4. CASE NewClient
  <2>1. CASE pc' = "spawn"
    <3>1. /\ pc = "client"
          /\ UNCHANGED << handles, closed, system, cancelled, launched, egress, reader, backoff >>
      BY <1>4, <2>1 DEF NewClient
    <3>2. steam' /\ steam' \in BOOLEAN
      BY <1>4, <2>1 DEF NewClient
    <3>3. QED
      BY <2>1, <3>1, <3>2
  <2>2. CASE pc' # "spawn"
    <3>1. /\ pc = "client" /\ pc' = "failed" /\ CloseDevice
          /\ UNCHANGED << steam, closed, system, cancelled, launched, egress, reader, backoff >>
      BY <1>4, <2>2 DEF NewClient
    <3>2. QED
      BY <3>1 DEF CloseDevice, EndSession
  <2>3. QED
    BY <2>1, <2>2
<1>5. CASE Spawn
  BY <1>5 DEF Spawn
<1>6. QED
  BY <1>1, <1>2, <1>3, <1>4, <1>5 DEF StartStep

\* So does a step of Stop.
LEMMA StopKeepsInv ==
  ASSUME EngineInv, Claim \/ StopStep
  PROVE  EngineInv'
<1> USE DEF EngineInv, EngineTypeOK, HandlesFollow, UsersFollow, DelayFollows, Opening,
            Stopping, system, backoff, handles, Moves, Returned
<1>1. CASE Claim
  BY <1>1 DEF Claim
<1>2. CASE Cancel
  BY <1>2 DEF Cancel
<1>3. CASE Mark
  BY <1>3 DEF Mark
<1>4. CASE Signal
  BY <1>4 DEF Signal, SetEvent
<1>5. CASE Wait
  BY <1>5 DEF Wait, AllReturned
<1>6. CASE Close
  BY <1>6 DEF Close, CloseDevice, EndSession
<1>7. CASE Shutdown
  <2>1. /\ pc = "shutdown" /\ pc' = "stopped"
        /\ UNCHANGED << handles, closed, system, cancelled, launched, egress, reader, backoff >>
    BY <1>7 DEF Shutdown
  <2>2. ~steam' /\ steam' \in BOOLEAN
    BY <1>7 DEF Shutdown
  <2>3. QED
    BY <2>1, <2>2
<1>8. QED
  BY <1>1, <1>2, <1>3, <1>4, <1>5, <1>6, <1>7 DEF StopStep

\* Only goroutines that are there take steps.
LEMMA LiveSteps ==
  ASSUME EngineInv
  PROVE  /\ EgressStep => ~Returned(egress)
         /\ ReaderStep => ~Returned(reader)
         /\ ~Returned(egress) \/ ~Returned(reader) =>
              pc \in {"running", "cancel", "mark", "signal", "wait"}
<1>1. EgressStep => ~Returned(egress)
  BY DEF EgressStep, ReadChecks, ReadReceives, ReadWakes, Returned
<1>2. ReaderStep => ~Returned(reader)
  BY DEF ReaderStep, LoopHead, LoopFindsNothing, LoopReceives, LoopSlept, LoopRoused,
         WriteChecks, WriteSends, Returned
<1>3. ~Returned(egress) \/ ~Returned(reader) =>
        pc \in {"running", "cancel", "mark", "signal", "wait"}
  BY DEF EngineInv, EngineTypeOK, UsersFollow, Opening, Stopping, Returned
<1>4. QED
  BY <1>1, <1>2, <1>3

\* So does a step of the egress goroutine.
LEMMA EgressKeepsInv ==
  ASSUME EngineInv, EgressStep
  PROVE  EngineInv'
<1>1. pc \in {"running", "cancel", "mark", "signal", "wait"}
  BY LiveSteps
<1>2. /\ egress' \in {"check", "receive", "wait", "ended"}
      /\ ring' \in 0 .. MaxRing /\ launched' \in BOOLEAN
      /\ UNCHANGED << handles, closed, lost, facade, reader, backoff >>
  <2>1. CASE ReadChecks
    BY <2>1 DEF ReadChecks, system, EngineInv, EngineTypeOK
  <2>2. CASE ReadReceives
    BY <2>2, EngineAssumption DEF ReadReceives, EngineInv, EngineTypeOK
  <2>3. CASE ReadWakes
    BY <2>3 DEF ReadWakes, system, EngineInv, EngineTypeOK
  <2>4. QED
    BY <2>1, <2>2, <2>3 DEF EgressStep
<1>3. UNCHANGED << adapter, session, event, closed, lost, pc, steam, cancelled, reader, cur, silence >>
  BY <1>2 DEF handles, facade, backoff
<1>4. QED
  BY <1>1, <1>2, <1>3
  DEF EngineInv, EngineTypeOK, HandlesFollow, UsersFollow, DelayFollows, Opening

\* So does a step of the ReadLoop.
LEMMA ReaderKeepsInv ==
  ASSUME EngineInv, ReaderStep
  PROVE  EngineInv'
<1>1. pc \in {"running", "cancel", "mark", "signal", "wait"}
  BY LiveSteps
<1>2. UNCHANGED << adapter, session, event, closed, ring, lost, pc, steam, cancelled,
                   launched, egress >>
  BY DEF ReaderStep, LoopHead, LoopFindsNothing, LoopReceives, LoopSlept, LoopRoused,
         WriteChecks, WriteSends, handles, system, facade
<1>3. reader' \in {"head", "poll", "sleep", "check", "send", "ended"}
  BY DEF ReaderStep, LoopHead, LoopFindsNothing, LoopReceives, LoopSlept, LoopRoused,
         WriteChecks, WriteSends
<1>0. /\ MinIdle \in Nat \ {0} /\ MaxIdle \in Nat /\ MinIdle <= MaxIdle
      /\ cur \in 0 .. MaxIdle /\ silence \in 0 .. MaxIdle /\ DelayFollows
  BY EngineAssumption DEF EngineInv, EngineTypeOK
<1>4. cur' \in 0 .. MaxIdle /\ silence' \in 0 .. MaxIdle /\ DelayFollows'
  <2>1. CASE UNCHANGED backoff /\ reader' # "sleep"
    BY <1>0, <2>1 DEF backoff, DelayFollows
  <2>2. CASE LoopFindsNothing
    <3>1. CASE cur = 0
      BY <1>0, <2>2, <3>1 DEF LoopFindsNothing, DelayFollows, MinOf
    <3>2. CASE cur # 0
      <4>1. cur >= MinIdle
        BY <1>0, <3>2 DEF DelayFollows, MinOf
      <4>2. QED
        BY <1>0, <2>2, <3>2, <4>1 DEF LoopFindsNothing, DelayFollows
    <3>3. QED
      BY <3>1, <3>2
  <2>3. CASE LoopReceives
    BY <1>0, <2>3 DEF LoopReceives, GotPacket, DelayFollows, MinOf
  <2>4. CASE LoopSlept
    <3>1. reader = "sleep" /\ cur' = Grown /\ silence' = MinOf(MaxIdle, silence + cur)
      BY <2>4 DEF LoopSlept
    <3>2. /\ cur' \in 1 .. MaxIdle /\ silence' \in 0 .. MaxIdle
          /\ cur' = MinOf(MaxIdle, silence' + MinIdle)
      BY <3>1, DelayGrows DEF EngineInv
    <3>3. QED
      BY <1>0, <3>2 DEF DelayFollows
  <2>5. QED
    BY <2>1, <2>2, <2>3, <2>4
    DEF ReaderStep, LoopHead, LoopRoused, WriteChecks, WriteSends
<1>5. QED
  BY <1>1, <1>2, <1>3, <1>4
  DEF EngineInv, EngineTypeOK, HandlesFollow, UsersFollow, Opening

\* Every step keeps the invariant.
LEMMA EngineInvStep ==
  ASSUME EngineInv, [EngineNext]_engineVars
  PROVE  EngineInv'
<1>1. CASE SystemSends \/ SystemRemoves
  <2>1. /\ ring' \in 0 .. MaxRing /\ lost' \in BOOLEAN
        /\ UNCHANGED << handles, closed, facade, launched, egress, reader, backoff >>
    <3>1. ring \in 0 .. MaxRing /\ lost \in BOOLEAN /\ MaxRing \in Nat
      BY EngineAssumption DEF EngineInv, EngineTypeOK
    <3>2. CASE SystemSends
      BY <3>1, <3>2 DEF SystemSends
    <3>3. CASE SystemRemoves
      BY <3>1, <3>3 DEF SystemRemoves
    <3>4. QED
      BY <1>1, <3>2, <3>3
  <2>2. UNCHANGED << adapter, session, event, pc, steam, cancelled, cur, silence >>
    BY <2>1 DEF handles, facade, backoff
  <2>3. QED
    BY <2>1, <2>2
    DEF EngineInv, EngineTypeOK, HandlesFollow, UsersFollow, DelayFollows
<1>2. CASE UNCHANGED engineVars
  BY <1>2
  DEF engineVars, handles, system, facade, backoff, EngineInv, EngineTypeOK,
      HandlesFollow, UsersFollow, DelayFollows, Returned
<1>3. QED
  BY <1>1, <1>2, StartKeepsInv, StopKeepsInv, EgressKeepsInv, ReaderKeepsInv DEF EngineNext

\* The invariant holds of every reachable state.
LEMMA EngineInvariance == EngineSpec => []EngineInv
  BY EngineInvInit, EngineInvStep, PTL DEF EngineSpec

-----------------------------------------------------------------------------
\* The engine's state keeps its types (device_windows.go, backoff.go).
THEOREM EngineTypes == EngineSpec => []EngineTypeOK
<1>1. EngineInv => EngineTypeOK
  BY DEF EngineInv
<1>2. QED
  BY <1>1, EngineInvariance, PTL

\* Every handle and the bridge outlive the goroutines that use them
\* (device_windows.go l.167-170, steambridge_facade.go l.188-197).
THEOREM HandlesOutliveUsers == EngineSpec => []NothingFreedInUse
<1>1. EngineInv => NothingFreedInUse
  BY LiveSteps DEF EngineInv, HandlesFollow, NothingFreedInUse
<1>2. QED
  BY <1>1, EngineInvariance, PTL

\* A failed Start and a Stop leave nothing open (device_windows.go l.90-105,
\* steambridge_facade.go l.103-107).
THEOREM EverythingIsClosed == EngineSpec => []NothingLeftOpen
<1>1. EngineInv => NothingLeftOpen
  BY DEF EngineInv, HandlesFollow, NothingLeftOpen
<1>2. QED
  BY <1>1, EngineInvariance, PTL

\* The ReadLoop's pauses follow its silence, whatever the two bounds of the
\* delay (backoff.go l.30-54).
THEOREM PausesFollowSilence == EngineSpec => []PauseFollowsSilence
<1>1. EngineInv => PauseFollowsSilence
  BY DEF EngineInv, DelayFollows, PauseFollowsSilence
<1>2. QED
  BY <1>1, EngineInvariance, PTL

-----------------------------------------------------------------------------
(***************************************************************************)
(* The contract.                                                           *)
(***************************************************************************)

\* The phase by where Start or Stop stands, the goroutines by where they are.
LEMMA PhaseFollows ==
  ASSUME EngineInv
  PROVE  Phase = IF pc \in Opening THEN "closed"
                 ELSE IF pc = "running" THEN "open"
                 ELSE IF pc \in {"cancel", "mark", "signal", "wait", "close"} THEN "draining"
                 ELSE "freed"
  BY DEF EngineInv, EngineTypeOK, HandlesFollow, Phase, Opening, Stopping

\* The live goroutines are none, both, or the ones named.
LEMMA AliveFollows ==
  /\ "egress" \in Alive <=> ~Returned(egress)
  /\ "reader" \in Alive <=> ~Returned(reader)
  /\ Alive \subseteq {"egress", "reader"}
  BY DEF Alive

\* A step of the engine is a step of the contract or none.
LEMMA ContractStep ==
  ASSUME EngineInv, EngineInv', [EngineNext]_engineVars
  PROVE  [Contract!ContractNext]_(Contract!contractVars)
<1> DEFINE Shown(p) == IF p \in Opening THEN "closed"
                       ELSE IF p = "running" THEN "open"
                       ELSE IF p \in {"cancel", "mark", "signal", "wait", "close"}
                       THEN "draining" ELSE "freed"
<1>0. Phase = Shown(pc) /\ Phase' = Shown(pc')
  BY PhaseFollows DEF EngineInv, EngineTypeOK, HandlesFollow, Phase, Opening, Stopping
<1>1. /\ "egress" \in Alive <=> ~Returned(egress)
      /\ "reader" \in Alive <=> ~Returned(reader)
      /\ Alive \subseteq {"egress", "reader"}
      /\ "egress" \in Alive' <=> ~Returned(egress')
      /\ "reader" \in Alive' <=> ~Returned(reader')
      /\ Alive' \subseteq {"egress", "reader"}
  BY DEF Alive, Returned
<1>2. CASE UNCHANGED << pc, egress, reader >>
  <2>1. Alive' = Alive
    BY <1>2 DEF Alive
  <2>2. QED
    BY <1>0, <1>2, <2>1 DEF Contract!contractVars
<1>3. CASE StartStep
  <2>1. CASE Spawn
    <3>1. pc = "spawn" /\ pc' = "running" /\ Alive = {} /\ Alive' = {"egress", "reader"}
      BY <1>1, <2>1 DEF Spawn, EngineInv, UsersFollow, Opening, Returned
    <3>2. QED
      BY <1>0, <3>1 DEF Opening, Contract!ContractNext, Contract!Open
  <2>2. CASE ~Spawn
    <3>1. /\ pc \in Opening /\ pc' \in Opening \cup {"failed"}
          /\ UNCHANGED << egress, reader >>
      BY <1>3, <2>2
      DEF StartStep, OpenAdapter, StartSession, CreateEvent, NewClient, Opening
    <3>2. Alive' = Alive
      BY <3>1 DEF Alive
    <3>3. QED
      BY <1>0, <3>1, <3>2
      DEF Opening, Contract!contractVars, Contract!ContractNext, Contract!GiveUp
  <2>3. QED
    BY <2>1, <2>2
<1>4. CASE Claim \/ StopStep
  <2>1. UNCHANGED << egress, reader >>
    BY <1>4 DEF Claim, StopStep, Cancel, Mark, Signal, Wait, Close, Shutdown
  <2>2. Alive' = Alive
    BY <2>1 DEF Alive
  <2>3. CASE Claim
    BY <1>0, <2>2, <2>3
    DEF Claim, Moves, Opening, Contract!ContractNext, Contract!Drain
  <2>4. CASE Cancel \/ Mark \/ Signal \/ Wait \/ Shutdown
    BY <1>0, <2>2, <2>4
    DEF Cancel, Mark, Signal, Wait, Shutdown, Moves, Opening, Contract!contractVars
  <2>5. CASE Close
    <3>1. pc = "close" /\ pc' = "shutdown" /\ Alive = {}
      BY <1>1, <2>5 DEF Close, Moves, EngineInv, UsersFollow
    <3>2. QED
      BY <1>0, <2>2, <3>1 DEF Opening, Contract!ContractNext, Contract!Free
  <2>6. QED
    BY <1>4, <2>3, <2>4, <2>5 DEF StopStep
<1>5. CASE EgressStep
  <2>1. ~Returned(egress) /\ UNCHANGED << pc, reader >>
    BY <1>5, LiveSteps DEF EgressStep, ReadChecks, ReadReceives, ReadWakes, facade
  <2>2. CASE ~Returned(egress')
    <3>1. Alive' = Alive
      BY <2>1, <2>2 DEF Alive
    <3>2. QED
      BY <1>0, <2>1, <3>1 DEF Contract!contractVars
  <2>3. CASE Returned(egress')
    <3>1. "egress" \in Alive /\ Alive' = Alive \ {"egress"}
      BY <1>1, <2>1, <2>3
    <3>2. QED
      BY <1>0, <2>1, <3>1 DEF Contract!ContractNext, Contract!Return
  <2>4. QED
    BY <2>2, <2>3
<1>6. CASE ReaderStep
  <2>1. ~Returned(reader)
    BY <1>6, LiveSteps
  <2>2. UNCHANGED << pc, egress >>
    BY <1>6
    DEF ReaderStep, LoopHead, LoopFindsNothing, LoopReceives, LoopSlept, LoopRoused,
        WriteChecks, WriteSends, facade
  <2>3. CASE ~Returned(reader')
    <3>1. Alive' = Alive
      BY <2>1, <2>2, <2>3 DEF Alive
    <3>2. QED
      BY <1>0, <2>2, <3>1 DEF Contract!contractVars
  <2>4. CASE Returned(reader')
    <3>1. "reader" \in Alive /\ Alive' = Alive \ {"reader"}
      BY <1>1, <2>1, <2>2, <2>4
    <3>2. QED
      BY <1>0, <2>2, <3>1 DEF Contract!ContractNext, Contract!Return
  <2>5. QED
    BY <2>3, <2>4
<1>7. CASE SystemSends \/ SystemRemoves \/ UNCHANGED engineVars
  BY <1>2, <1>7 DEF SystemSends, SystemRemoves, engineVars, facade
<1>8. QED
  BY <1>3, <1>4, <1>5, <1>6, <1>7 DEF EngineNext

\* The engine implements the contract of what its goroutines share: built
\* before they start, freed after all have returned (steambridge_facade.go
\* l.120-199).
THEOREM EngineKeepsContract == EngineSpec => Contract!ContractSpec
<1>1. EngineInit => Contract!ContractInit
  BY DEF EngineInit, Contract!ContractInit, Phase, Alive, Opening, Returned
<1>2. QED
  BY <1>1, ContractStep, EngineInvariance, PTL DEF EngineSpec, Contract!ContractSpec
=============================================================================
