-------------------------- MODULE LifecycleProofs ---------------------------
(***************************************************************************)
(* Theorems of Lifecycle.  For any number of goroutines that call Start    *)
(* and Stop in any order, the types hold and the wait group counts the     *)
(* engine goroutines that have not returned.  Where a Start does not run   *)
(* beside other calls, Stop frees nothing in use, the flag tells the truth *)
(* and no call of Start or Stop meets a bridge that is down, but for the   *)
(* request to the --peer of a Start whose egress loop has failed.          *)
(***************************************************************************)
EXTENDS Lifecycle, FiniteSetTheorems, TLAPS

-----------------------------------------------------------------------------
(***************************************************************************)
(* What holds however calls overlap.                                       *)
(***************************************************************************)
Building == {"create", "connect", "arm", "spawn"}

\* A Start that has not spawned yet has a generation to itself.
OwnGeneration ==
  \A t \in Threads :
    pc[t] \in Building =>
      /\ mine[t] \in 1 .. made
      /\ egress[mine[t]] = "none" /\ reader[mine[t]] = "none"
      /\ \A u \in Threads : pc[u] \in Building /\ mine[u] = mine[t] => u = t

\* Nothing of a later generation exists.
FutureIsEmpty ==
  \A g \in Gen : g > made => egress[g] = "none" /\ reader[g] = "none"

EgressOn == {g \in Gen : egress[g] = "on"}
ReaderOn == {g \in Gen : reader[g] = "on"}

\* The wait group counts the goroutines that have not returned.
WaitGroupCounts == wg = Cardinality(EgressOn) + Cardinality(ReaderOn)

CountInv == TypeOK /\ OwnGeneration /\ FutureIsEmpty /\ WaitGroupCounts

-----------------------------------------------------------------------------
(***************************************************************************)
(* What holds where a Start runs beside no other call: one generation at a *)
(* time, and one call at work on it.                                       *)
(***************************************************************************)
AtWork(t) == pc[t] \in Building \cup StopStates

OneAtWork == \A t, u \in Threads : AtWork(t) /\ AtWork(u) => t = u

BuildsAlone == \A t, u \in Threads : pc[t] \in Building /\ u # t => pc[u] = "idle"

\* The thread of a generation does nothing before its egress loop has ended,
\* and never calls Start.
EngineThreads ==
  \A g \in Gen : ~InStart(g) /\ (egress[g] # "ended" => pc[g] = "idle")

\* Only the last generation has anything left.
PastIsGone ==
  \A g \in Gen :
    /\ g # made => device[g] \in {"none", "closed"} /\ egress[g] # "on" /\ reader[g] # "on"
    /\ g > made => g \notin cancelled

\* The last generation while Start builds it, by the place it has reached.
Built(t) ==
  /\ pc[t] \in Building =>
       /\ running /\ mine[t] = made /\ made \notin cancelled
       /\ steam <=> pc[t] \in {"arm", "spawn"}
  /\ pc[t] = "create" => device[made] \in {"none", "closed"}
  /\ pc[t] \in Building \ {"create"} => tunDev = made /\ device[made] = "open"
  /\ pc[t] \in {"arm", "spawn"} => client = made
  /\ pc[t] = "spawn" => cancelFunc = made

\* All of the last generation is there.
Whole ==
  /\ made \in Gen
  /\ tunDev = made /\ client = made /\ cancelFunc = made /\ source[made] = made
  /\ steam

\* Nothing of it is left.
Gone ==
  /\ ~steam
  /\ \A g \in Gen : device[g] \in {"none", "closed"} /\ egress[g] # "on" /\ reader[g] # "on"

UpAndRunning == Whole /\ device[made] = "open" /\ reader[made] = "on" /\ made \notin cancelled

\* The last generation while Stop takes it down.
TornDown(t) ==
  /\ pc[t] \in StopStates => ~running /\ Whole
  /\ pc[t] \in {"farewell", "cancel"} => UpAndRunning
  /\ pc[t] = "unblock" => device[made] = "open"
  /\ pc[t] \in {"wait", "close"} => device[made] = "unblocked"
  /\ pc[t] \in {"close", "shutdown"} => egress[made] # "on" /\ reader[made] # "on"
  /\ pc[t] = "shutdown" => device[made] = "closed"

Settled == (\A t \in Threads : ~AtWork(t)) => IF running THEN UpAndRunning ELSE Gone

PhaseInv ==
  /\ OneAtWork /\ BuildsAlone /\ EngineThreads /\ PastIsGone
  /\ \A t \in Threads : Built(t) /\ TornDown(t)
  /\ Settled

LifeInv == CountInv /\ PhaseInv

-----------------------------------------------------------------------------
(***************************************************************************)
(* The wait group.                                                         *)
(***************************************************************************)

\* The goroutines of all generations are finitely many.
LEMMA GoroutinesFinite ==
  /\ IsFiniteSet(EgressOn) /\ Cardinality(EgressOn) \in Nat
  /\ IsFiniteSet(ReaderOn) /\ Cardinality(ReaderOn) \in Nat
<1>1. IsFiniteSet(Gen)
  BY FS_Interval, LifecycleAssumption DEF Gen
<1>2. EgressOn \in SUBSET Gen /\ ReaderOn \in SUBSET Gen
  BY DEF EgressOn, ReaderOn
<1>3. QED
  BY <1>1, <1>2, FS_Subset, FS_CardinalityType

\* Callers are no generations, so the thread of a generation never calls Start.
LEMMA CallersApart ==
  /\ Callers \subseteq Threads /\ Gen \subseteq Threads
  /\ NoGen \notin Gen
  /\ \A g \in Gen : g \notin Callers /\ g \in Nat /\ g >= 1 /\ g <= MaxStarts
  /\ \A x \in Nat : x >= 1 /\ x <= MaxStarts => x \in Gen
  /\ MaxStarts \in Nat /\ MaxFailures \in Nat
  BY LifecycleAssumption DEF Threads, Gen, NoGen

\* Two goroutines begin: each set gains a generation it did not have.
LEMMA SpawnCounts ==
  ASSUME CountInv, NEW t \in Threads, Spawn(t)
  PROVE  WaitGroupCounts'
<1>1. /\ mine[t] \in Gen /\ mine[t] \notin EgressOn /\ mine[t] \notin ReaderOn
      /\ egress \in [Gen -> {"none", "on", "ended", "gone"}] /\ reader \in [Gen -> {"none", "on", "ended"}]
      /\ egress' = [egress EXCEPT ![mine[t]] = "on"]
      /\ reader' = [reader EXCEPT ![mine[t]] = "on"]
      /\ wg' = wg + 2
  BY CallersApart
  DEF CountInv, TypeOK, OwnGeneration, Spawn, Moves, CountBoth, Building, EgressOn, ReaderOn, NoGen
<1>2. EgressOn' = EgressOn \cup {mine[t]} /\ ReaderOn' = ReaderOn \cup {mine[t]}
  BY <1>1 DEF EgressOn, ReaderOn
<1>3. /\ Cardinality(EgressOn') = Cardinality(EgressOn) + 1
      /\ Cardinality(ReaderOn') = Cardinality(ReaderOn) + 1
  BY <1>1, <1>2, GoroutinesFinite, FS_AddElement
<1>4. QED
  BY <1>1, <1>3, GoroutinesFinite DEF CountInv, WaitGroupCounts

\* A goroutine returns: its set loses it, and the counter was not zero.
LEMMA EgressEndCounts ==
  ASSUME CountInv, NEW g \in Gen, EgressEnds(g)
  PROVE  WaitGroupCounts' /\ wg' \in Nat
<1>1. /\ g \in EgressOn
      /\ egress \in [Gen -> {"none", "on", "ended", "gone"}]
      /\ \E how \in {"ended", "gone"} : egress' = [egress EXCEPT ![g] = how]
      /\ UNCHANGED reader /\ wg' = wg - 1
  BY DEF CountInv, TypeOK, EgressEnds, EgressOn
<1>2. EgressOn' = EgressOn \ {g} /\ ReaderOn' = ReaderOn
  BY <1>1 DEF EgressOn, ReaderOn
<1>3. Cardinality(EgressOn') = Cardinality(EgressOn) - 1 /\ Cardinality(EgressOn') \in Nat
  BY <1>1, <1>2, GoroutinesFinite, FS_RemoveElement, FS_CardinalityType
<1>4. QED
  BY <1>1, <1>2, <1>3, GoroutinesFinite DEF CountInv, WaitGroupCounts

LEMMA ReaderEndCounts ==
  ASSUME CountInv, NEW g \in Gen, ReaderEnds(g)
  PROVE  WaitGroupCounts' /\ wg' \in Nat
<1>1. /\ g \in ReaderOn
      /\ reader \in [Gen -> {"none", "on", "ended"}]
      /\ reader' = [reader EXCEPT ![g] = "ended"] /\ UNCHANGED egress
      /\ wg' = wg - 1
  BY DEF CountInv, TypeOK, ReaderEnds, ReaderOn
<1>2. ReaderOn' = ReaderOn \ {g} /\ EgressOn' = EgressOn
  BY <1>1 DEF EgressOn, ReaderOn
<1>3. Cardinality(ReaderOn') = Cardinality(ReaderOn) - 1 /\ Cardinality(ReaderOn') \in Nat
  BY <1>1, <1>2, GoroutinesFinite, FS_RemoveElement, FS_CardinalityType
<1>4. QED
  BY <1>1, <1>2, <1>3, GoroutinesFinite DEF CountInv, WaitGroupCounts

\* Whatever step leaves both goroutines alone leaves the count alone.
LEMMA CountStays ==
  ASSUME CountInv, UNCHANGED << egress, reader, wg >>
  PROVE  WaitGroupCounts'
  BY DEF CountInv, WaitGroupCounts, EgressOn, ReaderOn

-----------------------------------------------------------------------------
(***************************************************************************)
(* The types, and to whom generations belong.                              *)
(***************************************************************************)
TypesAndGenerations == TypeOK /\ OwnGeneration /\ FutureIsEmpty

\* A call goes on inside, or leaves, and no generation changes hands.
LEMMA MoveKeepsGenerations ==
  ASSUME TypesAndGenerations, NEW t \in Threads,
         NEW to \in {"idle", "launched"} \cup StartStates \cup StopStates,
         pc' = [pc EXCEPT ![t] = to],
         to \in Building => pc[t] \in Building,
         UNCHANGED << mine, made, egress, reader >>
  PROVE  /\ OwnGeneration' /\ FutureIsEmpty'
         /\ pc' \in [Threads -> {"idle", "launched"} \cup StartStates \cup StopStates]
  BY DEF TypesAndGenerations, TypeOK, OwnGeneration, FutureIsEmpty, StartStates, StopStates

\* What Turn and Unlinked leave of a device is a state of a device.
LEMMA DeviceKeepsType ==
  ASSUME TypeOK
  PROVE  /\ Unlinked \in [Gen -> {"none", "open", "lost", "unblocked", "closed"}]
         /\ \A g \in Gen \cup {NoGen}, s \in {"unblocked", "closed"} :
              Turn(g, s) => device' \in [Gen -> {"none", "open", "lost", "unblocked", "closed"}]
<1>1. device \in [Gen -> {"none", "open", "lost", "unblocked", "closed"}]
  BY DEF TypeOK
<1>2. QED
  BY <1>1 DEF Unlinked, Turn

LEMMA MisuseKeepsType ==
  ASSUME TypeOK, NEW who \in {"start", "stop", "peer", "join"}, Use(who)
  PROVE  misuse' \subseteq {"start", "stop", "peer", "join", "nil"}
  BY DEF TypeOK, Use

\* The claim of the flag makes a generation.
LEMMA ClaimKeepsTypes ==
  ASSUME TypesAndGenerations, NEW t \in Threads, StartClaim(t)
  PROVE  TypesAndGenerations'
<1>1. /\ made' = made + 1 /\ made + 1 \in Gen /\ made \in Nat
      /\ mine' = [mine EXCEPT ![t] = made + 1]
      /\ pc' = [pc EXCEPT ![t] = "create"] /\ pc[t] = "idle"
      /\ pc \in [Threads -> {"idle", "launched"} \cup StartStates \cup StopStates]
      /\ mine \in [Threads -> Gen \cup {NoGen}]
      /\ UNCHANGED << tunDev, client, cancelFunc, wg, once, failures, device, steam, cancelled,
                      egress, reader, source, misuse >>
      /\ running' = TRUE
  BY CallersApart DEF StartClaim, TypesAndGenerations, TypeOK, NoGen, engineVars
<1>2. TypeOK'
  <2>1. /\ pc' \in [Threads -> {"idle", "launched"} \cup StartStates \cup StopStates]
        /\ mine' \in [Threads -> Gen \cup {NoGen}]
    BY <1>1 DEF StartStates
  <2>2. QED
    BY <1>1, <2>1 DEF TypesAndGenerations, TypeOK
<1>3. OwnGeneration'
  <2>1. \A u \in Threads : u # t => pc'[u] = pc[u] /\ mine'[u] = mine[u]
    BY <1>1
  <2>2. pc'[t] = "create" /\ mine'[t] = made + 1
    BY <1>1
  <2>3. egress[made + 1] = "none" /\ reader[made + 1] = "none"
    BY <1>1 DEF TypesAndGenerations, FutureIsEmpty
  <2>4. \A u \in Threads : u # t /\ pc[u] \in Building => mine[u] \in 1 .. made
    BY DEF TypesAndGenerations, OwnGeneration
  <2>5. QED
    BY <1>1, <2>1, <2>2, <2>3, <2>4 DEF TypesAndGenerations, OwnGeneration
<1>4. FutureIsEmpty'
  BY <1>1, CallersApart DEF TypesAndGenerations, FutureIsEmpty
<1>5. QED
  BY <1>2, <1>3, <1>4 DEF TypesAndGenerations

\* The other steps of Start.
LEMMA StartKeepsTypes ==
  ASSUME TypesAndGenerations, NEW t \in Threads, StartStep(t)
  PROVE  TypesAndGenerations'
<1>0. /\ TypeOK /\ OwnGeneration /\ FutureIsEmpty
      /\ pc[t] \in Building => mine[t] \in Gen
  BY CallersApart DEF TypesAndGenerations, OwnGeneration, TypeOK, NoGen
<1>1. CASE Create(t)
  <2>1. /\ OwnGeneration' /\ FutureIsEmpty'
        /\ pc' \in [Threads -> {"idle", "launched"} \cup StartStates \cup StopStates]
    BY <1>1, MoveKeepsGenerations DEF Create, Moves, Building, StartStates
  <2>2. device' \in [Gen -> {"none", "open", "lost", "unblocked", "closed"}]
    BY <1>0, <1>1, DeviceKeepsType DEF Create, Moves, Building
  <2>3. tunDev' \in Gen
    BY <1>0, <1>1 DEF Create, Moves, Building
  <2>4. QED
    BY <1>0, <1>1, <2>1, <2>2, <2>3 DEF TypesAndGenerations, TypeOK, Create, Moves
<1>2. CASE CreateFails(t)
  <2>1. /\ OwnGeneration' /\ FutureIsEmpty'
        /\ pc' \in [Threads -> {"idle", "launched"} \cup StartStates \cup StopStates]
    BY <1>2, MoveKeepsGenerations DEF CreateFails, Moves, Building
  <2>2. device' \in [Gen -> {"none", "open", "lost", "unblocked", "closed"}]
    BY <1>0, <1>2, DeviceKeepsType DEF CreateFails, TypeOK
  <2>3. failures' \in 0 .. MaxFailures
    BY <1>0, <1>2, CallersApart DEF CreateFails, Fail, TypeOK
  <2>4. QED
    BY <1>0, <1>2, <2>1, <2>2, <2>3 DEF TypesAndGenerations, TypeOK, CreateFails, Moves
<1>3. CASE Connect(t)
  <2>1. /\ OwnGeneration' /\ FutureIsEmpty'
        /\ pc' \in [Threads -> {"idle", "launched"} \cup StartStates \cup StopStates]
    BY <1>3, MoveKeepsGenerations DEF Connect, Moves, Building, StartStates
  <2>2. client' \in Gen /\ steam' = TRUE
    BY <1>0, <1>3 DEF Connect, Moves, Building
  <2>3. QED
    BY <1>0, <1>3, <2>1, <2>2 DEF TypesAndGenerations, TypeOK, Connect, Moves
<1>4. CASE ConnectFails(t)
  <2>1. /\ OwnGeneration' /\ FutureIsEmpty'
        /\ pc' \in [Threads -> {"idle", "launched"} \cup StartStates \cup StopStates]
    BY <1>4, MoveKeepsGenerations DEF ConnectFails, Moves, Building
  <2>2. device' \in [Gen -> {"none", "open", "lost", "unblocked", "closed"}]
    BY <1>0, <1>4, DeviceKeepsType DEF ConnectFails, TypeOK
  <2>3. failures' \in 0 .. MaxFailures /\ running' = FALSE
    BY <1>0, <1>4, CallersApart DEF ConnectFails, Fail, TypeOK, ClearFlag
  <2>4. QED
    BY <1>0, <1>4, <2>1, <2>2, <2>3 DEF TypesAndGenerations, TypeOK, ConnectFails, Moves
<1>5. CASE Arm(t)
  <2>1. /\ OwnGeneration' /\ FutureIsEmpty'
        /\ pc' \in [Threads -> {"idle", "launched"} \cup StartStates \cup StopStates]
    BY <1>5, MoveKeepsGenerations DEF Arm, Moves, Building, StartStates, engineVars
  <2>2. cancelFunc' \in Gen /\ once' = FALSE
    BY <1>0, <1>5 DEF Arm, Moves, Building
  <2>3. misuse' \subseteq {"start", "stop", "peer", "join", "nil"}
    BY <1>0, <1>5, MisuseKeepsType DEF Arm
  <2>4. QED
    BY <1>0, <1>5, <2>1, <2>2, <2>3 DEF TypesAndGenerations, TypeOK, Arm, Moves, engineVars
<1>6. CASE Spawn(t)
  <2>1. /\ pc[t] = "spawn" /\ pc' = [pc EXCEPT ![t] = "settle"] /\ UNCHANGED << mine, made >>
        /\ egress' = [egress EXCEPT ![mine[t]] = "on"]
        /\ reader' = [reader EXCEPT ![mine[t]] = "on"]
        /\ source' = [source EXCEPT ![mine[t]] = tunDev]
        /\ mine[t] \in Gen /\ mine[t] \in 1 .. made /\ wg' = wg + 2
        /\ pc \in [Threads -> {"idle", "launched"} \cup StartStates \cup StopStates]
    BY <1>0, <1>6 DEF Spawn, Moves, Building, CountBoth, OwnGeneration, TypeOK
  <2>2. /\ pc' \in [Threads -> {"idle", "launched"} \cup StartStates \cup StopStates]
        /\ \A u \in Threads : pc'[u] \in Building => u # t /\ pc[u] \in Building
    BY <2>1 DEF StartStates, Building
  <2>3. OwnGeneration'
    <3>1. \A u \in Threads : pc'[u] \in Building => mine[u] # mine[t]
      BY <1>0, <2>1, <2>2 DEF OwnGeneration, Building
    <3>2. QED
      BY <1>0, <2>1, <2>2, <3>1, CallersApart DEF OwnGeneration, TypeOK, NoGen
  <2>4. FutureIsEmpty'
    BY <1>0, <2>1, CallersApart DEF FutureIsEmpty, TypeOK, NoGen
  <2>5. QED
    BY <1>0, <1>6, <2>1, <2>2, <2>3, <2>4 DEF TypesAndGenerations, TypeOK, Spawn
<1>7. CASE Settle(t)
  <2>1. /\ OwnGeneration' /\ FutureIsEmpty'
        /\ pc' \in [Threads -> {"idle", "launched"} \cup StartStates \cup StopStates]
    BY <1>7, MoveKeepsGenerations DEF Settle, Moves, Building, engineVars
  <2>2. misuse' \subseteq {"start", "stop", "peer", "join", "nil"}
    BY <1>0, <1>7, MisuseKeepsType DEF Settle, TypeOK
  <2>3. QED
    BY <1>0, <1>7, <2>1, <2>2 DEF TypesAndGenerations, TypeOK, Settle, Moves, engineVars, fields
<1>8. QED
  BY <1>1, <1>2, <1>3, <1>4, <1>5, <1>6, <1>7 DEF StartStep

\* The steps of Stop.
LEMMA StopKeepsTypes ==
  ASSUME TypesAndGenerations, NEW t \in Threads, StopClaim(t) \/ StopStep(t)
  PROVE  TypesAndGenerations'
<1>0. TypeOK /\ OwnGeneration /\ FutureIsEmpty
  BY DEF TypesAndGenerations
<1>1. CASE StopClaim(t)
  <2>1. /\ OwnGeneration' /\ FutureIsEmpty'
        /\ pc' \in [Threads -> {"idle", "launched"} \cup StartStates \cup StopStates]
    <3>1. PICK to \in {"farewell", "idle"} : pc' = [pc EXCEPT ![t] = to]
      BY <1>1 DEF StopClaim
    <3>2. QED
      BY <1>1, <3>1, MoveKeepsGenerations DEF StopClaim, Building, StopStates, engineVars
  <2>2. QED
    BY <1>0, <1>1, <2>1 DEF TypesAndGenerations, TypeOK, StopClaim, engineVars
<1>2. CASE Farewell(t)
  <2>1. /\ OwnGeneration' /\ FutureIsEmpty'
        /\ pc' \in [Threads -> {"idle", "launched"} \cup StartStates \cup StopStates]
    BY <1>2, MoveKeepsGenerations DEF Farewell, Moves, Building, StopStates, engineVars
  <2>2. misuse' \subseteq {"start", "stop", "peer", "join", "nil"}
    BY <1>0, <1>2, MisuseKeepsType DEF Farewell, TypeOK
  <2>3. QED
    BY <1>0, <1>2, <2>1, <2>2 DEF TypesAndGenerations, TypeOK, Farewell, Moves, engineVars, fields
<1>3. CASE CancelContext(t)
  <2>1. /\ OwnGeneration' /\ FutureIsEmpty'
        /\ pc' \in [Threads -> {"idle", "launched"} \cup StartStates \cup StopStates]
    BY <1>3, MoveKeepsGenerations DEF CancelContext, Moves, Building, StopStates
  <2>2. QED
    BY <1>0, <1>3, <2>1 DEF TypesAndGenerations, TypeOK, CancelContext, Moves, fields
<1>4. CASE Unblock(t)
  <2>1. /\ OwnGeneration' /\ FutureIsEmpty'
        /\ pc' \in [Threads -> {"idle", "launched"} \cup StartStates \cup StopStates]
    BY <1>4, MoveKeepsGenerations DEF Unblock, Moves, Building, StopStates
  <2>2. device' \in [Gen -> {"none", "open", "lost", "unblocked", "closed"}]
    BY <1>0, <1>4, DeviceKeepsType DEF Unblock, WakeReader, TypeOK
  <2>3. QED
    BY <1>0, <1>4, <2>1, <2>2 DEF TypesAndGenerations, TypeOK, Unblock, Moves, fields
<1>5. CASE Wait(t)
  <2>1. /\ OwnGeneration' /\ FutureIsEmpty'
        /\ pc' \in [Threads -> {"idle", "launched"} \cup StartStates \cup StopStates]
    BY <1>5, MoveKeepsGenerations DEF Wait, Moves, Building, StopStates, engineVars
  <2>2. QED
    BY <1>0, <1>5, <2>1 DEF TypesAndGenerations, TypeOK, Wait, Moves, fields, engineVars
<1>6. CASE CloseDevice(t)
  <2>1. /\ OwnGeneration' /\ FutureIsEmpty'
        /\ pc' \in [Threads -> {"idle", "launched"} \cup StartStates \cup StopStates]
    BY <1>6, MoveKeepsGenerations DEF CloseDevice, Moves, Building, StopStates
  <2>2. device' \in [Gen -> {"none", "open", "lost", "unblocked", "closed"}]
    BY <1>0, <1>6, DeviceKeepsType DEF CloseDevice, TypeOK
  <2>3. QED
    BY <1>0, <1>6, <2>1, <2>2 DEF TypesAndGenerations, TypeOK, CloseDevice, Moves, fields
<1>7. CASE Shutdown(t)
  <2>1. /\ OwnGeneration' /\ FutureIsEmpty'
        /\ pc' \in [Threads -> {"idle", "launched"} \cup StartStates \cup StopStates]
    BY <1>7, MoveKeepsGenerations DEF Shutdown, Moves, Building
  <2>2. steam' \in BOOLEAN
    BY <1>0, <1>7 DEF Shutdown, TypeOK
  <2>3. QED
    BY <1>0, <1>7, <2>1, <2>2 DEF TypesAndGenerations, TypeOK, Shutdown, Moves, fields
<1>8. QED
  BY <1>1, <1>2, <1>3, <1>4, <1>5, <1>6, <1>7 DEF StopStep

\* A goroutine returns, and may launch the thread of its generation.
LEMMA EndKeepsTypes ==
  ASSUME TypesAndGenerations, NEW g \in Gen, EgressEnds(g) \/ ReaderEnds(g), wg' \in Nat
  PROVE  TypesAndGenerations'
<1>0. /\ TypeOK /\ OwnGeneration /\ FutureIsEmpty
      /\ g \in Threads
  BY CallersApart DEF TypesAndGenerations
<1>1. CASE EgressEnds(g)
  <2>1. /\ \E how \in {"ended", "gone"} : egress' = [egress EXCEPT ![g] = how]
        /\ egress[g] = "on"
        /\ UNCHANGED << mine, made, reader >>
        /\ egress \in [Gen -> {"none", "on", "ended", "gone"}]
        /\ pc \in [Threads -> {"idle", "launched"} \cup StartStates \cup StopStates]
    BY <1>0, <1>1 DEF EgressEnds, TypeOK
  <2>2. pc' = pc \/ pc' = [pc EXCEPT ![g] = "launched"]
    BY <1>1 DEF EgressEnds, ReportEnd
  <2>3. /\ pc' \in [Threads -> {"idle", "launched"} \cup StartStates \cup StopStates]
        /\ \A u \in Threads : pc'[u] \in Building => pc[u] \in Building
    BY <1>0, <2>1, <2>2 DEF Building
  <2>4. OwnGeneration'
    BY <1>0, <2>1, <2>3 DEF OwnGeneration
  <2>5. FutureIsEmpty'
    BY <1>0, <2>1 DEF FutureIsEmpty
  <2>6. once' \in BOOLEAN /\ failures' \in 0 .. MaxFailures
    <3>1. once' \in BOOLEAN
      BY <1>0, <1>1 DEF EgressEnds, ReportEnd, TypeOK
    <3>2. failures' \in 0 .. MaxFailures
      BY <1>0, <1>1, CallersApart DEF EgressEnds, Fail, TypeOK
    <3>3. QED
      BY <3>1, <3>2
  <2>7. QED
    BY <1>0, <1>1, <2>1, <2>3, <2>4, <2>5, <2>6 DEF TypesAndGenerations, TypeOK, EgressEnds
<1>2. CASE ReaderEnds(g)
  <2>1. /\ reader' = [reader EXCEPT ![g] = "ended"] /\ reader[g] = "on"
        /\ reader \in [Gen -> {"none", "on", "ended"}]
        /\ UNCHANGED << pc, mine, made, egress, failures >>
    BY <1>0, <1>2 DEF ReaderEnds, TypeOK, threadVars
  <2>2. OwnGeneration'
    BY <1>0, <2>1 DEF OwnGeneration
  <2>3. FutureIsEmpty'
    BY <1>0, <2>1 DEF FutureIsEmpty
  <2>4. QED
    BY <1>0, <1>2, <2>1, <2>2, <2>3 DEF TypesAndGenerations, TypeOK, ReaderEnds
<1>3. QED
  BY <1>1, <1>2

\* Every step keeps the types, the owners of generations and the count.
LEMMA CountStep ==
  ASSUME CountInv, [Next]_lifecycleVars
  PROVE  CountInv'
<1>0. TypesAndGenerations /\ WaitGroupCounts
  BY DEF CountInv, TypesAndGenerations
<1> SUFFICES TypesAndGenerations' /\ WaitGroupCounts'
  BY DEF CountInv, TypesAndGenerations
<1>1. CASE UNCHANGED lifecycleVars
  <2>1. WaitGroupCounts'
    BY <1>1, CountStays DEF lifecycleVars, fields, engineVars
  <2>2. QED
    BY <1>0, <1>1, <2>1
    DEF TypesAndGenerations, TypeOK, OwnGeneration, FutureIsEmpty, lifecycleVars, fields,
        threadVars, engineVars
<1>2. ASSUME NEW t \in Threads, StartClaim(t) PROVE TypesAndGenerations' /\ WaitGroupCounts'
  <2>1. WaitGroupCounts'
    BY <1>2, CountStays DEF StartClaim, engineVars
  <2>2. QED
    BY <1>0, <1>2, <2>1, ClaimKeepsTypes
<1>3. ASSUME NEW t \in Threads, StartStep(t) PROVE TypesAndGenerations' /\ WaitGroupCounts'
  <2>1. CASE Spawn(t)
    BY <1>0, <1>3, <2>1, SpawnCounts, StartKeepsTypes
  <2>2. CASE ~Spawn(t)
    <3>1. UNCHANGED << egress, reader, wg >>
      BY <1>3, <2>2
      DEF StartStep, Create, CreateFails, Connect, ConnectFails, Arm, Settle, engineVars, fields
    <3>2. QED
      BY <1>0, <1>3, <3>1, CountStays, StartKeepsTypes
  <2>3. QED
    BY <2>1, <2>2
<1>4. ASSUME NEW t \in Threads, StopClaim(t) \/ StopStep(t)
      PROVE  TypesAndGenerations' /\ WaitGroupCounts'
  <2>1. UNCHANGED << egress, reader, wg >>
    BY <1>4
    DEF StopClaim, StopStep, Farewell, CancelContext, Unblock, Wait, CloseDevice, Shutdown,
        engineVars, fields
  <2>2. QED
    BY <1>0, <1>4, <2>1, CountStays, StopKeepsTypes
<1>5. ASSUME NEW t \in Threads, Join(t)
      PROVE  TypesAndGenerations' /\ WaitGroupCounts'
  <2>1. misuse' \subseteq {"start", "stop", "peer", "join", "nil"}
    BY <1>0, <1>5, MisuseKeepsType DEF TypesAndGenerations, TypeOK, Join
  <2>2. UNCHANGED << fields, threadVars, engineVars >>
    BY <1>5 DEF Join
  <2>3. WaitGroupCounts'
    BY <2>2, CountStays DEF fields, engineVars
  <2>4. QED
    BY <1>0, <2>1, <2>2, <2>3
    DEF TypesAndGenerations, TypeOK, OwnGeneration, FutureIsEmpty, fields, threadVars, engineVars
<1>6. ASSUME NEW g \in Gen, EgressEnds(g) \/ ReaderEnds(g)
      PROVE  TypesAndGenerations' /\ WaitGroupCounts'
  BY <1>0, <1>6, EgressEndCounts, ReaderEndCounts, EndKeepsTypes
<1>7. QED
  BY <1>1, <1>2, <1>3, <1>4, <1>5, <1>6 DEF Next

LEMMA CountInit == Init => CountInv
<1> SUFFICES ASSUME Init PROVE CountInv
  OBVIOUS
<1>1. TypeOK /\ OwnGeneration /\ FutureIsEmpty
  <2>1. TypeOK
    <3>1. /\ pc \in [Threads -> {"idle", "launched"} \cup StartStates \cup StopStates]
          /\ mine \in [Threads -> Gen \cup {NoGen}] /\ source \in [Gen -> Gen \cup {NoGen}]
      BY DEF Init
    <3>2. /\ device \in [Gen -> {"none", "open", "lost", "unblocked", "closed"}]
          /\ egress \in [Gen -> {"none", "on", "ended", "gone"}]
          /\ reader \in [Gen -> {"none", "on", "ended"}]
      BY DEF Init
    <3>3. failures \in 0 .. MaxFailures /\ wg \in Nat
      BY CallersApart DEF Init
    <3>4. QED
      BY <3>1, <3>2, <3>3 DEF Init, TypeOK
  <2>2. OwnGeneration /\ FutureIsEmpty
    BY DEF Init, OwnGeneration, FutureIsEmpty, Building
  <2>3. QED
    BY <2>1, <2>2
<1>2. EgressOn = {} /\ ReaderOn = {} /\ wg = 0
  BY DEF Init, EgressOn, ReaderOn
<1>3. WaitGroupCounts
  BY <1>2, FS_EmptySet DEF WaitGroupCounts
<1>4. QED
  BY <1>1, <1>3 DEF CountInv

\* Every field keeps its type, and the counter of the wait group, whatever
\* Starts and Stops overlap, never goes below zero (steambridge_facade.go
\* l.123-138).
THEOREM LifecycleTypes == Spec => []TypeOK
<1>1. CountInv => TypeOK
  BY DEF CountInv
<1>2. QED
  BY <1>1, CountInit, CountStep, PTL DEF Spec

\* The counter Stop waits for is the number of engine goroutines, of all
\* generations, that have not returned (steambridge_facade.go l.123-138, 189).
THEOREM WaitGroupIsExact == Spec => []WaitGroupCounts
<1>1. CountInv => WaitGroupCounts
  BY DEF CountInv
<1>2. QED
  BY <1>1, CountInit, CountStep, PTL DEF Spec

-----------------------------------------------------------------------------
(***************************************************************************)
(* One call at work at a time.                                             *)
(***************************************************************************)

\* Who is at work is alone.
LEMMA AtWorkAlone ==
  ASSUME LifeInv, NEW t \in Threads, AtWork(t)
  PROVE  /\ \A u \in Threads : u # t => ~AtWork(u)
         /\ pc[t] \in Building => t \notin Gen /\ \A u \in Threads : u # t => pc[u] = "idle"
  BY DEF LifeInv, PhaseInv, OneAtWork, BuildsAlone, EngineThreads, InStart, Building, StartStates

\* A call at work goes on to the next place of its kind.
LEMMA WorkGoesOn ==
  ASSUME LifeInv, NEW t \in Threads, AtWork(t), NEW to \in Building \cup StopStates,
         pc' = [pc EXCEPT ![t] = to], to \in Building => pc[t] \in Building, UNCHANGED egress
  PROVE  /\ OneAtWork' /\ BuildsAlone' /\ EngineThreads' /\ Settled'
         /\ pc'[t] = to
         /\ \A u \in Threads : u # t => Built(u)' /\ TornDown(u)'
<1>1. /\ pc'[t] = to
      /\ \A u \in Threads : u # t => pc'[u] = pc[u]
  BY DEF LifeInv, CountInv, TypeOK
<1>2. \A u \in Threads : u # t => ~AtWork(u)'
  BY <1>1, AtWorkAlone DEF AtWork
<1>3. AtWork(t)'
  BY <1>1 DEF AtWork
<1>4. OneAtWork' /\ Settled'
  BY <1>2, <1>3 DEF OneAtWork, Settled
<1>5. BuildsAlone'
  BY <1>1, <1>2, AtWorkAlone DEF BuildsAlone, AtWork
<1>6. EngineThreads'
  BY <1>1, AtWorkAlone, CallersApart
  DEF EngineThreads, InStart, LifeInv, PhaseInv, AtWork, Building, StartStates, StopStates
<1>7. \A u \in Threads : u # t => Built(u)' /\ TornDown(u)'
  BY <1>2 DEF AtWork, Built, TornDown, Building, StopStates
<1>8. QED
  BY <1>1, <1>4, <1>5, <1>6, <1>7

\* A call that is not at work any more leaves nobody at work.
LEMMA WorkEnds ==
  ASSUME LifeInv, NEW t \in Threads, AtWork(t), NEW to \in {"idle", "settle"},
         pc' = [pc EXCEPT ![t] = to]
  PROVE  /\ OneAtWork' /\ BuildsAlone'
         /\ \A u \in Threads : ~AtWork(u)' /\ Built(u)' /\ TornDown(u)'
<1>1. /\ pc'[t] = to
      /\ \A u \in Threads : u # t => pc'[u] = pc[u]
  BY DEF LifeInv, CountInv, TypeOK
<1>2. \A u \in Threads : ~AtWork(u)'
  BY <1>1, AtWorkAlone DEF AtWork, Building, StopStates
<1>3. OneAtWork' /\ BuildsAlone'
  BY <1>2 DEF OneAtWork, BuildsAlone, AtWork
<1>4. \A u \in Threads : Built(u)' /\ TornDown(u)'
  BY <1>2 DEF AtWork, Built, TornDown, Building, StopStates
<1>5. QED
  BY <1>2, <1>3, <1>4

\* While the last generation is built no goroutine of it runs.
LEMMA NothingRunsYet ==
  ASSUME LifeInv, NEW t \in Threads, pc[t] \in Building
  PROVE  /\ mine[t] = made /\ made \in Gen /\ running /\ made \notin cancelled
         /\ \A g \in Gen : egress[g] # "on" /\ reader[g] # "on"
<1>1. mine[t] = made /\ running /\ made \notin cancelled
  BY DEF LifeInv, PhaseInv, Built
<1>2. mine[t] \in 1 .. made /\ egress[mine[t]] = "none" /\ reader[mine[t]] = "none"
  BY DEF LifeInv, CountInv, OwnGeneration
<1>3. made \in Gen
  BY <1>1, <1>2, CallersApart DEF LifeInv, CountInv, TypeOK, NoGen
<1>4. QED
  BY <1>1, <1>2, <1>3 DEF LifeInv, PhaseInv, PastIsGone

-----------------------------------------------------------------------------
(***************************************************************************)
(* The steps of Start.                                                     *)
(***************************************************************************)

\* A Start begins where nobody is inside a call, so nothing is left.
LEMMA ClaimKeepsPhase ==
  ASSUME Overlap = FALSE, LifeInv, NEW t \in Threads, StartClaim(t)
  PROVE  PhaseInv'
<1>1. /\ t \in Callers /\ t \notin Gen
      /\ ~running /\ running' = TRUE
      /\ \A u \in Threads : pc[u] = "idle"
      /\ pc' = [pc EXCEPT ![t] = "create"]
      /\ made' = made + 1 /\ mine' = [mine EXCEPT ![t] = made + 1]
      /\ UNCHANGED << tunDev, client, cancelFunc, device, steam, cancelled, egress, reader,
                      source, misuse >>
  BY CallersApart DEF StartClaim, engineVars
<1>2. made \in Nat /\ made + 1 \in Gen
  BY CallersApart DEF StartClaim, LifeInv, CountInv, TypeOK, NoGen
<1>3. /\ pc'[t] = "create" /\ \A u \in Threads : u # t => pc'[u] = "idle"
      /\ mine'[t] = made + 1
  BY <1>1 DEF LifeInv, CountInv, TypeOK
<1>4. Gone
  BY <1>1 DEF LifeInv, PhaseInv, Settled, AtWork, Building, StopStates
<1>5. AtWork(t)' /\ \A u \in Threads : u # t => ~AtWork(u)'
  BY <1>3 DEF AtWork, Building, StopStates
<1>6. OneAtWork' /\ BuildsAlone' /\ Settled'
  BY <1>3, <1>5 DEF OneAtWork, BuildsAlone, Settled, Building
<1>7. EngineThreads'
  BY <1>1, <1>3, CallersApart DEF EngineThreads, InStart, StartStates
<1>8. PastIsGone'
  BY <1>1, <1>2, <1>4, CallersApart DEF LifeInv, PhaseInv, PastIsGone, Gone
<1>9. ASSUME NEW u \in Threads PROVE Built(u)' /\ TornDown(u)'
  <2>1. CASE u = t
    <3>1. made + 1 \notin cancelled
      BY <1>2 DEF LifeInv, PhaseInv, PastIsGone
    <3>2. QED
      BY <1>1, <1>2, <1>3, <1>4, <2>1, <3>1 DEF Built, TornDown, Gone, Building, StopStates
  <2>2. CASE u # t
    BY <1>3, <2>2 DEF Built, TornDown, Building, StopStates
  <2>3. QED
    BY <2>1, <2>2
<1>10. QED
  BY <1>1, <1>6, <1>7, <1>8, <1>9 DEF LifeInv, PhaseInv

LEMMA CreateKeepsPhase ==
  ASSUME LifeInv, NEW t \in Threads, Create(t)
  PROVE  PhaseInv'
<1>1. /\ pc[t] = "create" /\ pc' = [pc EXCEPT ![t] = "connect"]
      /\ tunDev' = mine[t] /\ device' = [Unlinked EXCEPT ![mine[t]] = "open"]
      /\ UNCHANGED << running, client, cancelFunc, steam, cancelled, egress, reader, source,
                      misuse, mine, made >>
  BY DEF Create, Moves
<1>2. /\ mine[t] = made /\ made \in Gen /\ running /\ made \notin cancelled
      /\ AtWork(t) /\ ~steam
  BY <1>1, NothingRunsYet DEF Building, AtWork, LifeInv, PhaseInv, Built
<1>3. /\ OneAtWork' /\ BuildsAlone' /\ EngineThreads' /\ Settled'
      /\ pc'[t] = "connect"
      /\ \A u \in Threads : u # t => Built(u)' /\ TornDown(u)'
  BY <1>1, <1>2, WorkGoesOn DEF Building
<1>4. device'[made] = "open" /\ \A g \in Gen : g # made => device'[g] = Unlinked[g]
  BY <1>1, <1>2 DEF Unlinked
<1>5. PastIsGone'
  BY <1>1, <1>4 DEF LifeInv, PhaseInv, PastIsGone, Unlinked
<1>6. Built(t)' /\ TornDown(t)'
  BY <1>1, <1>2, <1>3, <1>4 DEF Built, TornDown, Building, StopStates
<1>7. QED
  BY <1>1, <1>3, <1>5, <1>6 DEF LifeInv, PhaseInv

\* A Start that fails leaves nothing.
LEMMA CreateFailsKeepsPhase ==
  ASSUME LifeInv, NEW t \in Threads, CreateFails(t)
  PROVE  PhaseInv'
<1>1. /\ pc[t] = "create" /\ pc' = [pc EXCEPT ![t] = "idle"]
      /\ running' = FALSE /\ device' \in {device, Unlinked}
      /\ UNCHANGED << tunDev, client, cancelFunc, steam, cancelled, egress, reader, source,
                      misuse, mine, made >>
  BY DEF CreateFails, Moves
<1>2. /\ AtWork(t) /\ ~steam /\ device[made] \in {"none", "closed"}
      /\ \A g \in Gen : egress[g] # "on" /\ reader[g] # "on"
  BY <1>1, NothingRunsYet DEF Building, AtWork, LifeInv, PhaseInv, Built
<1>3. /\ OneAtWork' /\ BuildsAlone'
      /\ \A u \in Threads : ~AtWork(u)' /\ Built(u)' /\ TornDown(u)'
  BY <1>1, <1>2, WorkEnds
<1>4. \A g \in Gen : device'[g] \in {"none", "closed"}
  <2>1. \A g \in Gen : device[g] \in {"none", "closed"}
    BY <1>2 DEF LifeInv, PhaseInv, PastIsGone
  <2>2. \A g \in Gen : Unlinked[g] \in {"none", "closed"}
    BY <2>1 DEF Unlinked
  <2>3. QED
    BY <1>1, <2>1, <2>2
<1>5. Settled' /\ PastIsGone'
  BY <1>1, <1>2, <1>4 DEF Settled, Gone, LifeInv, PhaseInv, PastIsGone
<1>6. EngineThreads'
  BY <1>1, CallersApart DEF EngineThreads, InStart, StartStates, LifeInv, PhaseInv, CountInv, TypeOK
<1>7. QED
  BY <1>1, <1>3, <1>5, <1>6 DEF LifeInv, PhaseInv

LEMMA ConnectKeepsPhase ==
  ASSUME LifeInv, NEW t \in Threads, Connect(t)
  PROVE  PhaseInv'
<1>1. /\ pc[t] = "connect" /\ pc' = [pc EXCEPT ![t] = "arm"]
      /\ client' = mine[t] /\ steam' = TRUE
      /\ UNCHANGED << running, tunDev, cancelFunc, device, cancelled, egress, reader, source,
                      misuse, mine, made >>
  BY DEF Connect, Moves
<1>2. /\ mine[t] = made /\ made \in Gen /\ running /\ made \notin cancelled
      /\ AtWork(t) /\ tunDev = made /\ device[made] = "open"
  BY <1>1, NothingRunsYet DEF Building, AtWork, LifeInv, PhaseInv, Built
<1>3. /\ OneAtWork' /\ BuildsAlone' /\ EngineThreads' /\ Settled'
      /\ pc'[t] = "arm"
      /\ \A u \in Threads : u # t => Built(u)' /\ TornDown(u)'
  BY <1>1, <1>2, WorkGoesOn DEF Building
<1>4. Built(t)' /\ TornDown(t)'
  BY <1>1, <1>2, <1>3 DEF Built, TornDown, Building, StopStates
<1>5. QED
  BY <1>1, <1>3, <1>4 DEF LifeInv, PhaseInv, PastIsGone

LEMMA ConnectFailsKeepsPhase ==
  ASSUME LifeInv, NEW t \in Threads, ConnectFails(t)
  PROVE  PhaseInv'
<1>1. /\ pc[t] = "connect" /\ pc' = [pc EXCEPT ![t] = "idle"]
      /\ running' = FALSE /\ Turn(tunDev, "closed")
      /\ UNCHANGED << tunDev, client, cancelFunc, steam, cancelled, egress, reader, source,
                      misuse, mine, made >>
  BY DEF ConnectFails, Moves, ClearFlag
<1>2. /\ AtWork(t) /\ ~steam /\ tunDev = made /\ made \in Gen
      /\ \A g \in Gen : egress[g] # "on" /\ reader[g] # "on"
  BY <1>1, NothingRunsYet DEF Building, AtWork, LifeInv, PhaseInv, Built
<1>3. /\ OneAtWork' /\ BuildsAlone'
      /\ \A u \in Threads : ~AtWork(u)' /\ Built(u)' /\ TornDown(u)'
  BY <1>1, <1>2, WorkEnds
<1>4. \A g \in Gen : device'[g] \in {"none", "closed"}
  <2>1. /\ device' = IF device[made] # "closed" THEN [device EXCEPT ![made] = "closed"] ELSE device
        /\ device \in [Gen -> {"none", "open", "lost", "unblocked", "closed"}]
    BY <1>1, <1>2, CallersApart DEF Turn, LifeInv, CountInv, TypeOK
  <2>2. \A g \in Gen : g # made => device[g] \in {"none", "closed"}
    BY DEF LifeInv, PhaseInv, PastIsGone
  <2>3. QED
    BY <1>2, <2>1, <2>2
<1>5. Settled' /\ PastIsGone'
  BY <1>1, <1>2, <1>4 DEF Settled, Gone, LifeInv, PhaseInv, PastIsGone
<1>6. EngineThreads'
  BY <1>1, CallersApart DEF EngineThreads, InStart, StartStates, LifeInv, PhaseInv, CountInv, TypeOK
<1>7. QED
  BY <1>1, <1>3, <1>5, <1>6 DEF LifeInv, PhaseInv

LEMMA ArmKeepsPhase ==
  ASSUME LifeInv, NEW t \in Threads, Arm(t)
  PROVE  PhaseInv'
<1>1. /\ pc[t] = "arm" /\ pc' = [pc EXCEPT ![t] = "spawn"]
      /\ cancelFunc' = mine[t]
      /\ UNCHANGED << running, tunDev, client, device, steam, cancelled, egress, reader,
                      source, mine, made >>
  BY DEF Arm, Moves, engineVars
<1>2. /\ mine[t] = made /\ made \in Gen /\ running /\ made \notin cancelled
      /\ AtWork(t) /\ tunDev = made /\ client = made /\ device[made] = "open" /\ steam
  BY <1>1, NothingRunsYet DEF Building, AtWork, LifeInv, PhaseInv, Built
<1>3. /\ OneAtWork' /\ BuildsAlone' /\ EngineThreads' /\ Settled'
      /\ pc'[t] = "spawn"
      /\ \A u \in Threads : u # t => Built(u)' /\ TornDown(u)'
  BY <1>1, <1>2, WorkGoesOn DEF Building
<1>4. Built(t)' /\ TornDown(t)'
  BY <1>1, <1>2, <1>3 DEF Built, TornDown, Building, StopStates
<1>5. QED
  BY <1>1, <1>3, <1>4 DEF LifeInv, PhaseInv, PastIsGone

\* A Start that succeeds leaves all of its generation running.
LEMMA SpawnKeepsPhase ==
  ASSUME LifeInv, NEW t \in Threads, Spawn(t)
  PROVE  PhaseInv'
<1>1. /\ pc[t] = "spawn" /\ pc' = [pc EXCEPT ![t] = "settle"]
      /\ egress' = [egress EXCEPT ![mine[t]] = "on"]
      /\ reader' = [reader EXCEPT ![mine[t]] = "on"]
      /\ source' = [source EXCEPT ![mine[t]] = tunDev]
      /\ UNCHANGED << running, tunDev, client, cancelFunc, device, steam, cancelled, misuse,
                      mine, made >>
  BY DEF Spawn, Moves
<1>2. /\ mine[t] = made /\ made \in Gen /\ running /\ made \notin cancelled
      /\ AtWork(t) /\ tunDev = made /\ client = made /\ cancelFunc = made
      /\ device[made] = "open" /\ steam
  BY <1>1, NothingRunsYet DEF Building, AtWork, LifeInv, PhaseInv, Built
<1>3. /\ OneAtWork' /\ BuildsAlone'
      /\ \A u \in Threads : ~AtWork(u)' /\ Built(u)' /\ TornDown(u)'
  BY <1>1, <1>2, WorkEnds
<1>4. /\ egress'[made] = "on" /\ reader'[made] = "on" /\ source'[made] = made
      /\ \A g \in Gen : g # made => egress'[g] = egress[g] /\ reader'[g] = reader[g]
  BY <1>1, <1>2 DEF LifeInv, CountInv, TypeOK
<1>5. Settled' /\ PastIsGone'
  BY <1>1, <1>2, <1>4 DEF Settled, UpAndRunning, Whole, LifeInv, PhaseInv, PastIsGone
<1>6. EngineThreads'
  <2>1. \A g \in Gen : pc'[g] = pc[g] /\ pc[g] = "idle"
    BY <1>1, <1>2, AtWorkAlone, CallersApart DEF Building, LifeInv, CountInv, TypeOK
  <2>2. QED
    BY <2>1 DEF EngineThreads, InStart, StartStates
<1>7. QED
  BY <1>1, <1>3, <1>5, <1>6 DEF LifeInv, PhaseInv

LEMMA SettleKeepsPhase ==
  ASSUME LifeInv, NEW t \in Threads, Settle(t)
  PROVE  PhaseInv'
<1>1. /\ pc[t] = "settle" /\ pc' = [pc EXCEPT ![t] = "idle"]
      /\ UNCHANGED << running, tunDev, client, cancelFunc, device, steam, cancelled, egress,
                      reader, source, mine, made >>
  BY DEF Settle, Moves, fields, engineVars
<1>2. /\ pc'[t] = "idle" /\ \A u \in Threads : u # t => pc'[u] = pc[u]
      /\ t \notin Gen
  BY <1>1, CallersApart
  DEF LifeInv, CountInv, TypeOK, PhaseInv, EngineThreads, InStart, StartStates
<1>3. \A u \in Threads : (AtWork(u)' <=> AtWork(u)) /\ (pc'[u] \in Building <=> pc[u] \in Building)
  BY <1>1, <1>2 DEF AtWork, Building, StopStates
<1>4. OneAtWork' /\ BuildsAlone'
  BY <1>1, <1>2, <1>3 DEF LifeInv, PhaseInv, OneAtWork, BuildsAlone
<1>5. EngineThreads' /\ PastIsGone'
  BY <1>1, <1>2, CallersApart DEF LifeInv, PhaseInv, EngineThreads, InStart, PastIsGone
<1>6. Settled'
  BY <1>1, <1>3 DEF LifeInv, PhaseInv, Settled, UpAndRunning, Whole, Gone
<1>7. ASSUME NEW u \in Threads PROVE Built(u)' /\ TornDown(u)'
  BY <1>1, <1>2
  DEF LifeInv, PhaseInv, Built, TornDown, Building, StopStates, Whole, UpAndRunning
<1>8. QED
  BY <1>1, <1>4, <1>5, <1>6, <1>7 DEF LifeInv, PhaseInv

-----------------------------------------------------------------------------
(***************************************************************************)
(* The steps of Stop.                                                      *)
(***************************************************************************)

\* The Stop that finds the flag set finds nobody at work and all of the last
\* generation there.
LEMMA StopFindsAll ==
  ASSUME Overlap = FALSE, LifeInv, NEW t \in Threads, MayStop(t), running
  PROVE  UpAndRunning /\ \A u \in Threads : ~AtWork(u)
<1>1. ASSUME NEW u \in Threads, AtWork(u) PROVE FALSE
  <2>1. CASE pc[u] \in Building
    <3>1. t \in Callers /\ \A v \in Threads : ~InStart(v)
      BY <2>1 DEF MayStop, LifeInv, PhaseInv, BuildsAlone, Building
    <3>2. QED
      BY <2>1, <3>1 DEF InStart, Building, StartStates
  <2>2. CASE pc[u] \in StopStates
    BY <2>2 DEF LifeInv, PhaseInv, TornDown
  <2>3. QED
    BY <1>1, <2>1, <2>2 DEF AtWork
<1>2. QED
  BY <1>1 DEF LifeInv, PhaseInv, Settled

LEMMA StopClaimKeepsPhase ==
  ASSUME Overlap = FALSE, LifeInv, NEW t \in Threads, StopClaim(t)
  PROVE  PhaseInv'
<1>1. /\ MayStop(t) /\ pc[t] \in {"idle", "launched"}
      /\ running' = FALSE
      /\ pc' = [pc EXCEPT ![t] = IF running THEN "farewell" ELSE "idle"]
      /\ UNCHANGED << tunDev, client, cancelFunc, device, steam, cancelled, egress, reader,
                      source, misuse, mine, made >>
  BY DEF StopClaim, MayStop, StillSet, engineVars
<1>2. /\ pc'[t] = IF running THEN "farewell" ELSE "idle"
      /\ \A u \in Threads : u # t => pc'[u] = pc[u]
  BY <1>1 DEF LifeInv, CountInv, TypeOK
<1>3. PastIsGone'
  BY <1>1 DEF LifeInv, PhaseInv, PastIsGone
<1>4. EngineThreads'
  <2>1. ASSUME NEW g \in Gen, g = t, egress[g] # "ended" PROVE pc'[g] = "idle"
    <3>1. g \notin Callers /\ pc[g] = "idle"
      BY <2>1, CallersApart DEF LifeInv, PhaseInv, EngineThreads
    <3>2. QED
      BY <1>1, <2>1, <3>1 DEF MayStop
  <2>2. QED
    BY <1>1, <1>2, <2>1, CallersApart
    DEF LifeInv, PhaseInv, EngineThreads, InStart, StartStates
<1>5. CASE running
  <2>1. UpAndRunning /\ \A u \in Threads : ~AtWork(u)
    BY <1>1, <1>5, StopFindsAll
  <2>2. AtWork(t)' /\ \A u \in Threads : u # t => ~AtWork(u)'
    BY <1>2, <1>5, <2>1 DEF AtWork, StopStates
  <2>3. OneAtWork' /\ BuildsAlone' /\ Settled'
    BY <1>2, <1>5, <2>2 DEF OneAtWork, BuildsAlone, Settled, AtWork, Building
  <2>4. Built(t)' /\ TornDown(t)'
    BY <1>1, <1>2, <1>5, <2>1 DEF Built, TornDown, UpAndRunning, Whole, Building, StopStates
  <2>5. \A u \in Threads : u # t => Built(u)' /\ TornDown(u)'
    BY <2>2 DEF AtWork, Built, TornDown, Building, StopStates
  <2>6. QED
    BY <1>1, <1>3, <1>4, <2>3, <2>4, <2>5 DEF LifeInv, PhaseInv
<1>6. CASE ~running
  <2>1. /\ pc'[t] = "idle" /\ running' = running
        /\ ~AtWork(t) /\ ~AtWork(t)'
    BY <1>1, <1>2, <1>6 DEF AtWork, Building, StopStates, LifeInv, CountInv, TypeOK
  <2>2. \A u \in Threads : AtWork(u)' <=> AtWork(u)
    BY <1>2, <2>1 DEF AtWork
  <2>3. OneAtWork' /\ BuildsAlone'
    BY <1>1, <1>2, <2>1, <2>2 DEF LifeInv, PhaseInv, OneAtWork, BuildsAlone, AtWork
  <2>4. Settled'
    BY <1>1, <1>6, <2>1, <2>2 DEF LifeInv, PhaseInv, Settled, Gone
  <2>5. ASSUME NEW u \in Threads PROVE Built(u)' /\ TornDown(u)'
    BY <1>1, <1>2, <2>1
    DEF LifeInv, PhaseInv, Built, TornDown, Building, StopStates, Whole, UpAndRunning
  <2>6. QED
    BY <1>1, <1>3, <1>4, <2>3, <2>4, <2>5 DEF LifeInv, PhaseInv
<1>7. QED
  BY <1>5, <1>6

LEMMA FarewellKeepsPhase ==
  ASSUME LifeInv, NEW t \in Threads, Farewell(t)
  PROVE  PhaseInv'
<1>1. /\ pc[t] = "farewell" /\ pc' = [pc EXCEPT ![t] = "cancel"]
      /\ client # NoGen => Use("stop")
      /\ client = NoGen => UNCHANGED misuse
      /\ UNCHANGED << running, tunDev, client, cancelFunc, device, steam, cancelled, egress,
                      reader, source, mine, made >>
  BY DEF Farewell, Moves, fields, engineVars
<1>2. AtWork(t) /\ ~running /\ UpAndRunning /\ steam
  BY <1>1 DEF AtWork, StopStates, LifeInv, PhaseInv, TornDown, Whole
<1>3. /\ OneAtWork' /\ BuildsAlone' /\ EngineThreads' /\ Settled'
      /\ pc'[t] = "cancel"
      /\ \A u \in Threads : u # t => Built(u)' /\ TornDown(u)'
  BY <1>1, <1>2, WorkGoesOn DEF StopStates, Building
<1>4. Built(t)' /\ TornDown(t)'
  BY <1>1, <1>2, <1>3 DEF Built, TornDown, Building, StopStates, UpAndRunning, Whole
<1>5. QED
  BY <1>1, <1>3, <1>4 DEF LifeInv, PhaseInv, PastIsGone

LEMMA CancelKeepsPhase ==
  ASSUME LifeInv, NEW t \in Threads, CancelContext(t)
  PROVE  PhaseInv'
<1>1. /\ pc[t] = "cancel" /\ pc' = [pc EXCEPT ![t] = "unblock"]
      /\ cancelled' = cancelled \cup ({cancelFunc} \ {NoGen})
      /\ UNCHANGED << running, tunDev, client, cancelFunc, device, steam, egress, reader,
                      source, misuse, mine, made >>
  BY DEF CancelContext, Moves, fields
<1>2. AtWork(t) /\ ~running /\ UpAndRunning /\ cancelFunc = made
  BY <1>1 DEF AtWork, StopStates, LifeInv, PhaseInv, TornDown, Whole
<1>3. /\ OneAtWork' /\ BuildsAlone' /\ EngineThreads' /\ Settled'
      /\ pc'[t] = "unblock"
      /\ \A u \in Threads : u # t => Built(u)' /\ TornDown(u)'
  BY <1>1, <1>2, WorkGoesOn DEF StopStates, Building
<1>4. Built(t)' /\ TornDown(t)'
  BY <1>1, <1>2, <1>3 DEF Built, TornDown, Building, StopStates, UpAndRunning, Whole
<1>5. PastIsGone'
  BY <1>1, <1>2, CallersApart DEF LifeInv, PhaseInv, PastIsGone, Whole, UpAndRunning
<1>6. QED
  BY <1>1, <1>3, <1>4, <1>5 DEF LifeInv, PhaseInv

LEMMA UnblockKeepsPhase ==
  ASSUME LifeInv, NEW t \in Threads, Unblock(t)
  PROVE  PhaseInv'
<1>1. /\ pc[t] = "unblock" /\ pc' = [pc EXCEPT ![t] = "wait"]
      /\ Turn(tunDev, "unblocked")
      /\ UNCHANGED << running, tunDev, client, cancelFunc, steam, cancelled, egress, reader,
                      source, misuse, mine, made >>
  BY DEF Unblock, WakeReader, Moves, fields
<1>2. /\ AtWork(t) /\ ~running /\ Whole /\ tunDev = made /\ made \in Gen
      /\ device[made] = "open"
  BY <1>1 DEF AtWork, StopStates, LifeInv, PhaseInv, TornDown, Whole
<1>3. /\ OneAtWork' /\ BuildsAlone' /\ EngineThreads' /\ Settled'
      /\ pc'[t] = "wait"
      /\ \A u \in Threads : u # t => Built(u)' /\ TornDown(u)'
  BY <1>1, <1>2, WorkGoesOn DEF StopStates, Building
<1>4. device'[made] = "unblocked" /\ \A g \in Gen : g # made => device'[g] = device[g]
  BY <1>1, <1>2, CallersApart DEF Turn, LifeInv, CountInv, TypeOK
<1>5. Built(t)' /\ TornDown(t)'
  BY <1>1, <1>2, <1>3, <1>4 DEF Built, TornDown, Building, StopStates, Whole
<1>6. PastIsGone'
  BY <1>1, <1>4 DEF LifeInv, PhaseInv, PastIsGone
<1>7. QED
  BY <1>1, <1>3, <1>5, <1>6 DEF LifeInv, PhaseInv

\* A wait group at zero: no goroutine of any generation runs.
LEMMA ZeroIsNobody ==
  ASSUME CountInv, wg = 0
  PROVE  \A g \in Gen : egress[g] # "on" /\ reader[g] # "on"
<1>1. Cardinality(EgressOn) = 0 /\ Cardinality(ReaderOn) = 0
  BY GoroutinesFinite DEF CountInv, WaitGroupCounts
<1>2. EgressOn = {} /\ ReaderOn = {}
  BY <1>1, GoroutinesFinite, FS_EmptySet
<1>3. QED
  BY <1>2 DEF EgressOn, ReaderOn

LEMMA WaitKeepsPhase ==
  ASSUME LifeInv, NEW t \in Threads, Wait(t)
  PROVE  PhaseInv'
<1>1. /\ pc[t] = "wait" /\ pc' = [pc EXCEPT ![t] = "close"]
      /\ wg = 0
      /\ UNCHANGED << running, tunDev, client, cancelFunc, device, steam, cancelled, egress,
                      reader, source, misuse, mine, made >>
  BY DEF Wait, AllDone, Moves, fields, engineVars
<1>2. AtWork(t) /\ ~running /\ Whole /\ made \in Gen /\ device[made] = "unblocked"
  BY <1>1 DEF AtWork, StopStates, LifeInv, PhaseInv, TornDown, Whole
<1>3. /\ OneAtWork' /\ BuildsAlone' /\ EngineThreads' /\ Settled'
      /\ pc'[t] = "close"
      /\ \A u \in Threads : u # t => Built(u)' /\ TornDown(u)'
  BY <1>1, <1>2, WorkGoesOn DEF StopStates, Building
<1>4. egress[made] # "on" /\ reader[made] # "on"
  BY <1>1, <1>2, ZeroIsNobody DEF LifeInv
<1>5. Built(t)' /\ TornDown(t)'
  BY <1>1, <1>2, <1>3, <1>4 DEF Built, TornDown, Building, StopStates, Whole
<1>6. QED
  BY <1>1, <1>3, <1>5 DEF LifeInv, PhaseInv, PastIsGone

LEMMA CloseKeepsPhase ==
  ASSUME LifeInv, NEW t \in Threads, CloseDevice(t)
  PROVE  PhaseInv'
<1>1. /\ pc[t] = "close" /\ pc' = [pc EXCEPT ![t] = "shutdown"]
      /\ Turn(tunDev, "closed")
      /\ UNCHANGED << running, tunDev, client, cancelFunc, steam, cancelled, egress, reader,
                      source, misuse, mine, made >>
  BY DEF CloseDevice, Moves, fields
<1>2. /\ AtWork(t) /\ ~running /\ Whole /\ tunDev = made /\ made \in Gen
      /\ device[made] = "unblocked" /\ egress[made] # "on" /\ reader[made] # "on"
  BY <1>1 DEF AtWork, StopStates, LifeInv, PhaseInv, TornDown, Whole
<1>3. /\ OneAtWork' /\ BuildsAlone' /\ EngineThreads' /\ Settled'
      /\ pc'[t] = "shutdown"
      /\ \A u \in Threads : u # t => Built(u)' /\ TornDown(u)'
  BY <1>1, <1>2, WorkGoesOn DEF StopStates, Building
<1>4. device'[made] = "closed" /\ \A g \in Gen : g # made => device'[g] = device[g]
  BY <1>1, <1>2, CallersApart DEF Turn, LifeInv, CountInv, TypeOK
<1>5. Built(t)' /\ TornDown(t)'
  BY <1>1, <1>2, <1>3, <1>4 DEF Built, TornDown, Building, StopStates, Whole
<1>6. PastIsGone'
  BY <1>1, <1>4 DEF LifeInv, PhaseInv, PastIsGone
<1>7. QED
  BY <1>1, <1>3, <1>5, <1>6 DEF LifeInv, PhaseInv

\* The last step of Stop leaves nothing.
LEMMA ShutdownKeepsPhase ==
  ASSUME LifeInv, NEW t \in Threads, Shutdown(t)
  PROVE  PhaseInv'
<1>1. /\ pc[t] = "shutdown" /\ pc' = [pc EXCEPT ![t] = "idle"]
      /\ steam' = (steam /\ client = NoGen)
      /\ UNCHANGED << running, tunDev, client, cancelFunc, device, cancelled, egress, reader,
                      source, misuse, mine, made >>
  BY DEF Shutdown, Moves, fields
<1>2. /\ AtWork(t) /\ ~running /\ client = made /\ made \in Gen
      /\ device[made] = "closed" /\ egress[made] # "on" /\ reader[made] # "on"
  BY <1>1 DEF AtWork, StopStates, LifeInv, PhaseInv, TornDown, Whole
<1>3. /\ OneAtWork' /\ BuildsAlone'
      /\ \A u \in Threads : ~AtWork(u)' /\ Built(u)' /\ TornDown(u)'
  BY <1>1, <1>2, WorkEnds
<1>4. Settled' /\ PastIsGone'
  <2>1. ~steam'
    BY <1>1, <1>2, CallersApart
  <2>2. QED
    BY <1>1, <1>2, <2>1 DEF Settled, Gone, LifeInv, PhaseInv, PastIsGone
<1>5. EngineThreads'
  BY <1>1, CallersApart DEF EngineThreads, InStart, StartStates, LifeInv, PhaseInv, CountInv, TypeOK
<1>6. QED
  BY <1>1, <1>3, <1>4, <1>5 DEF LifeInv, PhaseInv

-----------------------------------------------------------------------------
(***************************************************************************)
(* The ends of the engine goroutines, and calls that only use the bridge.  *)
(***************************************************************************)

\* An egress loop that ends is that of the last generation, which nobody is
\* building; it may launch the thread of its generation, which was idle.
LEMMA EgressEndKeepsPhase ==
  ASSUME LifeInv, NEW g \in Gen, EgressEnds(g)
  PROVE  PhaseInv'
<1>1. /\ egress[g] = "on"
      /\ \/ egress' = [egress EXCEPT ![g] = "ended"] /\ (pc' = pc \/ pc' = [pc EXCEPT ![g] = "launched"])
         \/ egress' = [egress EXCEPT ![g] = "gone"] /\ pc' = pc
      /\ UNCHANGED << running, tunDev, client, cancelFunc, device, steam, cancelled, reader,
                      source, misuse, mine, made >>
  BY DEF EgressEnds, ReportEnd
<1>2. /\ egress'[g] \in {"ended", "gone"} /\ \A h \in Gen : h # g => egress'[h] = egress[h]
      /\ pc[g] = "idle" /\ pc'[g] \in {"idle", "launched"}
      /\ egress'[g] # "ended" => pc'[g] = "idle"
      /\ \A u \in Threads : u # g => pc'[u] = pc[u]
  <2>1. pc[g] = "idle"
    BY <1>1 DEF LifeInv, PhaseInv, EngineThreads
  <2>2. QED
    BY <1>1, <2>1, CallersApart DEF LifeInv, CountInv, TypeOK
<1>3. \A u \in Threads : pc[u] \notin Building
  BY <1>1, NothingRunsYet
<1>4. \A u \in Threads : (AtWork(u)' <=> AtWork(u)) /\ pc'[u] \notin Building
  BY <1>2, <1>3 DEF AtWork, Building, StopStates
<1>5. OneAtWork' /\ BuildsAlone'
  BY <1>4 DEF LifeInv, PhaseInv, OneAtWork, BuildsAlone
<1>6. EngineThreads'
  BY <1>2, CallersApart DEF LifeInv, PhaseInv, EngineThreads, InStart, StartStates
<1>7. PastIsGone' /\ Settled'
  <2>1. PastIsGone'
    BY <1>1, <1>2 DEF LifeInv, PhaseInv, PastIsGone
  <2>2. UpAndRunning => UpAndRunning'
    BY <1>1 DEF UpAndRunning, Whole
  <2>3. Gone => Gone'
    BY <1>1, <1>2 DEF Gone
  <2>4. QED
    BY <1>1, <1>4, <2>1, <2>2, <2>3 DEF LifeInv, PhaseInv, Settled
<1>8. ASSUME NEW u \in Threads PROVE Built(u)' /\ TornDown(u)'
  <2>1. Built(u)'
    BY <1>4 DEF Built, Building
  <2>2. pc'[u] \in StopStates => pc'[u] = pc[u]
    BY <1>2 DEF StopStates
  <2>3. Built(u) /\ TornDown(u) /\ (made \in Gen /\ egress[made] # "on" => egress'[made] # "on")
    BY <1>1, <1>2 DEF LifeInv, PhaseInv
  <2>4. TornDown(u)'
    BY <1>1, <2>2, <2>3 DEF TornDown, UpAndRunning, Whole, StopStates
  <2>5. QED
    BY <2>1, <2>4
<1>9. QED
  BY <1>1, <1>5, <1>6, <1>7, <1>8 DEF LifeInv, PhaseInv

\* A ReadLoop that ends saw its context cancelled: a Stop is past that.
LEMMA ReaderEndKeepsPhase ==
  ASSUME LifeInv, NEW g \in Gen, ReaderEnds(g)
  PROVE  PhaseInv'
<1>1. /\ reader[g] = "on" /\ g \in cancelled /\ reader' = [reader EXCEPT ![g] = "ended"]
      /\ UNCHANGED << running, tunDev, client, cancelFunc, device, steam, cancelled, egress,
                      source, misuse, pc, mine, made >>
  BY DEF ReaderEnds, threadVars
<1>2. reader'[g] = "ended" /\ \A h \in Gen : h # g => reader'[h] = reader[h]
  BY <1>1 DEF LifeInv, CountInv, TypeOK
<1>3. g = made
  BY <1>1 DEF LifeInv, PhaseInv, PastIsGone
<1>4. ~UpAndRunning
  BY <1>1, <1>3 DEF UpAndRunning
<1>5. OneAtWork' /\ BuildsAlone' /\ EngineThreads' /\ PastIsGone'
  BY <1>1, <1>2 DEF LifeInv, PhaseInv, OneAtWork, BuildsAlone, AtWork, EngineThreads, InStart, PastIsGone
<1>6. Gone => Gone'
  BY <1>1, <1>2 DEF Gone
<1>7. Settled'
  BY <1>1, <1>4, <1>6 DEF LifeInv, PhaseInv, Settled, AtWork
<1>8. ASSUME NEW u \in Threads PROVE Built(u)' /\ TornDown(u)'
  <2>1. Built(u) /\ TornDown(u)
    BY DEF LifeInv, PhaseInv
  <2>2. Built(u)'
    BY <1>1, <2>1 DEF Built
  <2>3. TornDown(u)'
    BY <1>1, <1>2, <1>3, <1>4, <2>1 DEF TornDown, Whole
  <2>4. QED
    BY <2>2, <2>3
<1>9. QED
  BY <1>1, <1>5, <1>7, <1>8 DEF LifeInv, PhaseInv

\* A call that changes at most who met a bridge that is down.
LEMMA RestKeepsPhase ==
  ASSUME LifeInv, UNCHANGED << fields, threadVars, engineVars >>
  PROVE  PhaseInv'
<1>1. UNCHANGED << running, tunDev, client, cancelFunc, device, steam, cancelled, egress,
                   reader, source, pc, mine, made >>
  BY DEF fields, threadVars, engineVars
<1>2. /\ OneAtWork' /\ BuildsAlone' /\ EngineThreads' /\ PastIsGone'
  BY <1>1 DEF LifeInv, PhaseInv, OneAtWork, BuildsAlone, AtWork, EngineThreads, InStart, PastIsGone
<1>3. Settled'
  BY <1>1 DEF LifeInv, PhaseInv, Settled, AtWork, UpAndRunning, Whole, Gone
<1>4. ASSUME NEW u \in Threads PROVE Built(u)' /\ TornDown(u)'
  BY <1>1 DEF LifeInv, PhaseInv, Built, TornDown, UpAndRunning, Whole
<1>5. QED
  BY <1>2, <1>3, <1>4 DEF PhaseInv

LEMMA PhaseStep ==
  ASSUME Overlap = FALSE, LifeInv, [Next]_lifecycleVars
  PROVE  PhaseInv'
<1>1. CASE UNCHANGED lifecycleVars
  BY <1>1, RestKeepsPhase DEF lifecycleVars
<1>2. ASSUME NEW t \in Threads, StartClaim(t) PROVE PhaseInv'
  BY <1>2, ClaimKeepsPhase
<1>3. ASSUME NEW t \in Threads, StartStep(t) PROVE PhaseInv'
  BY <1>3, CreateKeepsPhase, CreateFailsKeepsPhase, ConnectKeepsPhase, ConnectFailsKeepsPhase,
     ArmKeepsPhase, SpawnKeepsPhase, SettleKeepsPhase DEF StartStep
<1>4. ASSUME NEW t \in Threads, StopClaim(t) PROVE PhaseInv'
  BY <1>4, StopClaimKeepsPhase
<1>5. ASSUME NEW t \in Threads, StopStep(t) PROVE PhaseInv'
  BY <1>5, FarewellKeepsPhase, CancelKeepsPhase, UnblockKeepsPhase, WaitKeepsPhase,
     CloseKeepsPhase, ShutdownKeepsPhase DEF StopStep
<1>6. ASSUME NEW t \in Threads, Join(t) PROVE PhaseInv'
  BY <1>6, RestKeepsPhase DEF Join
<1>7. ASSUME NEW g \in Gen, EgressEnds(g) \/ ReaderEnds(g) PROVE PhaseInv'
  BY <1>7, EgressEndKeepsPhase, ReaderEndKeepsPhase
<1>8. QED
  BY <1>1, <1>2, <1>3, <1>4, <1>5, <1>6, <1>7 DEF Next

LEMMA PhaseInit == Init => PhaseInv
<1> SUFFICES ASSUME Init PROVE PhaseInv
  OBVIOUS
<1>1. /\ \A t \in Threads : pc[t] = "idle"
      /\ \A g \in Gen : device[g] = "none" /\ egress[g] = "none" /\ reader[g] = "none"
      /\ ~running /\ ~steam /\ cancelled = {} /\ misuse = {}
  BY DEF Init
<1>2. OneAtWork /\ BuildsAlone /\ EngineThreads
  BY <1>1, CallersApart
  DEF OneAtWork, BuildsAlone, EngineThreads, InStart, AtWork, Building, StartStates, StopStates
<1>3. PastIsGone /\ Settled
  BY <1>1 DEF PastIsGone, Settled, Gone
<1>4. \A t \in Threads : Built(t) /\ TornDown(t)
  BY <1>1 DEF Built, TornDown, Building, StopStates
<1>5. QED
  BY <1>2, <1>3, <1>4 DEF PhaseInv

LEMMA LifeInvariant == ASSUME Overlap = FALSE PROVE Spec => []LifeInv
<1>1. Init => LifeInv
  BY CountInit, PhaseInit DEF LifeInv
<1>2. LifeInv /\ [Next]_lifecycleVars => LifeInv'
  BY CountStep, PhaseStep DEF LifeInv
<1>3. QED
  BY <1>1, <1>2, PTL DEF Spec

-----------------------------------------------------------------------------
(***************************************************************************)
(* What the inductive invariant says of the resources.                     *)
(***************************************************************************)

\* A goroutine that runs is of the last generation, all of which is there.
LEMMA RunningIsWhole ==
  ASSUME LifeInv, NEW g \in Gen, egress[g] = "on" \/ reader[g] = "on"
  PROVE  /\ g = made /\ Whole
         /\ egress[g] = "on" => device[made] # "closed"
<1>1. g = made
  BY DEF LifeInv, PhaseInv, PastIsGone
<1>2. CASE \E t \in Threads : AtWork(t)
  <2>1. PICK t \in Threads : AtWork(t)
    BY <1>2
  <2>2. pc[t] \in StopStates
    BY <2>1, NothingRunsYet DEF AtWork
  <2>3. TornDown(t)
    BY DEF LifeInv, PhaseInv
  <2>4. Whole
    BY <2>2, <2>3 DEF TornDown
  <2>5. ASSUME egress[g] = "on" PROVE device[made] # "closed"
    BY <1>1, <2>2, <2>3, <2>5 DEF TornDown, UpAndRunning, StopStates
  <2>6. QED
    BY <1>1, <2>4, <2>5
<1>3. CASE \A t \in Threads : ~AtWork(t)
  BY <1>1, <1>3 DEF LifeInv, PhaseInv, Settled, UpAndRunning, Gone
<1>4. QED
  BY <1>2, <1>3

\* Stop frees nothing under an engine goroutine: while one runs its device is
\* not closed and the bridge is up (steambridge_facade.go l.188-197).  For any
\* number of callers, where a Start does not run beside other calls; beside a
\* Start it is not so.
THEOREM StopFreesNothingInUse == ASSUME Overlap = FALSE PROVE Spec => []FreedIsUnused
<1>1. LifeInv => FreedIsUnused
  BY RunningIsWhole DEF FreedIsUnused, Whole
<1>2. QED
  BY <1>1, LifeInvariant, PTL

\* Between calls a clear flag means that no goroutine, device or bridge of any
\* life is left, and a set one that there is something to stop
\* (steambridge_facade.go l.86-97, 169-199).
THEOREM FlagIsTrue == ASSUME Overlap = FALSE PROVE Spec => []FlagTellsTheTruth
<1>1. LifeInv => FlagTellsTheTruth
  <2> SUFFICES ASSUME LifeInv, \A t \in Threads : pc[t] = "idle"
               PROVE  IF running
                      THEN steam /\ tunDev # NoGen /\ reader[tunDev] = "on" /\ device[tunDev] # "closed"
                      ELSE /\ ~steam /\ wg = 0
                           /\ \A g \in Gen : /\ device[g] \in {"none", "closed"}
                                             /\ egress[g] # "on" /\ reader[g] # "on"
    BY DEF FlagTellsTheTruth
  <2>1. IF running THEN UpAndRunning ELSE Gone
    BY DEF LifeInv, PhaseInv, Settled, AtWork, Building, StopStates
  <2>2. CASE running
    BY <2>1, <2>2, CallersApart DEF UpAndRunning, Whole
  <2>3. CASE ~running
    <3>1. EgressOn = {} /\ ReaderOn = {}
      BY <2>1, <2>3 DEF Gone, EgressOn, ReaderOn
    <3>2. wg = 0
      BY <3>1, FS_EmptySet DEF LifeInv, CountInv, WaitGroupCounts
    <3>3. QED
      BY <2>1, <2>3, <3>2 DEF Gone
  <2>4. QED
    BY <2>2, <2>3
<1>2. QED
  BY <1>1, LifeInvariant, PTL

\* No thread but that of the last generation is in a Stop beside a Start, and a
\* Start that has spawned its goroutines loses the flag only when the egress
\* loop it spawned has failed: no caller stops it meanwhile.
SettlingInv ==
  /\ \A c \in Callers : pc[c] # "launched"
  /\ \A t, u \in Threads : InStart(t) /\ u # t => pc[u] = "idle" \/ (u \in Gen /\ u = made)
  /\ \A t \in Threads : InStart(t) => mine[t] = made
  /\ \A t \in Threads : pc[t] = "settle" => made \in Gen /\ (running \/ egress[made] = "ended")

\* Nothing of it changes.
LEMMA RestKeepsSettling ==
  ASSUME SettlingInv, UNCHANGED << pc, mine, made, running, egress >>
  PROVE  SettlingInv'
  BY DEF SettlingInv, InStart

\* A Start goes on alone, but for its last step.
LEMMA BuildKeepsSettling ==
  ASSUME LifeInv, SettlingInv, NEW t \in Threads, pc[t] \in Building,
         NEW to \in {"idle", "connect", "arm", "spawn"}, pc' = [pc EXCEPT ![t] = to],
         UNCHANGED << mine, made >>
  PROVE  SettlingInv'
<1>1. /\ pc'[t] = to /\ InStart(t)
      /\ \A u \in Threads : u # t => pc'[u] = "idle"
  BY DEF LifeInv, CountInv, TypeOK, PhaseInv, BuildsAlone, InStart, StartStates, Building
<1>2. QED
  BY <1>1, CallersApart DEF SettlingInv, InStart, StartStates

LEMMA SpawnKeepsSettling ==
  ASSUME LifeInv, SettlingInv, NEW t \in Threads, Spawn(t)
  PROVE  SettlingInv'
<1>1. pc[t] = "spawn" /\ pc' = [pc EXCEPT ![t] = "settle"] /\ UNCHANGED << mine, made, running >>
  BY DEF Spawn, Moves
<1>2. /\ pc'[t] = "settle"
      /\ \A u \in Threads : u # t => pc'[u] = "idle"
  BY <1>1 DEF LifeInv, CountInv, TypeOK, PhaseInv, BuildsAlone, Building
<1>3. running /\ mine[t] = made /\ made \in Gen
  BY <1>1, CallersApart
  DEF LifeInv, CountInv, TypeOK, OwnGeneration, PhaseInv, Built, Building, NoGen
<1>4. QED
  BY <1>1, <1>2, <1>3, CallersApart DEF SettlingInv, InStart, StartStates

\* The flag is cleared beside a Start only by the thread of its generation.
LEMMA StopClaimKeepsSettling ==
  ASSUME Overlap = FALSE, LifeInv, SettlingInv, NEW t \in Threads, StopClaim(t)
  PROVE  SettlingInv'
<1>1. /\ MayStop(t) /\ pc[t] \in {"idle", "launched"}
      /\ pc' = [pc EXCEPT ![t] = IF running THEN "farewell" ELSE "idle"]
      /\ UNCHANGED << mine, made, egress >>
  BY DEF StopClaim, MayStop, StillSet, engineVars
<1>2. /\ pc'[t] \in {"farewell", "idle"}
      /\ \A u \in Threads : u # t => pc'[u] = pc[u]
  BY <1>1 DEF LifeInv, CountInv, TypeOK
<1>3. ASSUME NEW u \in Threads, InStart(u)
      PROVE  t # u /\ t \in Gen /\ t = made /\ egress[made] = "ended"
  <2>1. pc[t] = "launched" /\ t # u
    BY <1>1, <1>3 DEF MayStop, InStart, StartStates
  <2>2. t \in Gen /\ t = made
    BY <1>3, <2>1 DEF SettlingInv, Threads
  <2>3. QED
    BY <2>1, <2>2 DEF LifeInv, PhaseInv, EngineThreads
<1>4. \A u \in Threads : InStart(u)' => InStart(u) /\ u # t
  BY <1>2 DEF InStart, StartStates
<1>5. \A u \in Threads : pc'[u] = "settle" => pc[u] = "settle" /\ InStart(u)
  BY <1>2 DEF InStart, StartStates
<1>6. \A c \in Callers : pc'[c] # "launched"
  BY <1>2, CallersApart DEF SettlingInv
<1>7. \A u, v \in Threads : InStart(u)' /\ v # u => pc'[v] = "idle" \/ (v \in Gen /\ v = made)
  BY <1>2, <1>3, <1>4 DEF SettlingInv
<1>8. QED
  BY <1>1, <1>3, <1>4, <1>5, <1>6, <1>7 DEF SettlingInv

\* A Stop goes on: whoever it runs beside, it did so before.
LEMMA StopKeepsSettling ==
  ASSUME LifeInv, SettlingInv, NEW t \in Threads, pc[t] \in StopStates \cup {"settle"},
         NEW to \in StopStates \cup {"idle"}, pc' = [pc EXCEPT ![t] = to],
         UNCHANGED << mine, made, running, egress >>
  PROVE  SettlingInv'
<1>1. /\ pc'[t] = to /\ pc[t] # "idle"
      /\ \A u \in Threads : u # t => pc'[u] = pc[u]
  BY DEF LifeInv, CountInv, TypeOK, StopStates
<1>2. \A u \in Threads : InStart(u)' => InStart(u)
  BY <1>1 DEF InStart, StartStates, StopStates
<1>3. \A c \in Callers : pc'[c] # "launched"
  BY <1>1, CallersApart DEF SettlingInv, StopStates
<1>4. \A u, v \in Threads : InStart(u)' /\ v # u => pc'[v] = "idle" \/ (v \in Gen /\ v = made)
  BY <1>1, <1>2 DEF SettlingInv
<1>5. \A u \in Threads : pc'[u] = "settle" => pc[u] = "settle"
  BY <1>1 DEF StopStates
<1>6. QED
  BY <1>2, <1>3, <1>4, <1>5 DEF SettlingInv

\* The loop that ends is of the last generation, and so is the Stop it launches.
LEMMA EgressEndKeepsSettling ==
  ASSUME LifeInv, SettlingInv, NEW g \in Gen, EgressEnds(g)
  PROVE  SettlingInv'
<1>1. /\ egress[g] = "on" /\ g = made /\ g \notin Callers /\ g \in Threads
      /\ pc[g] = "idle"
  BY CallersApart DEF EgressEnds, LifeInv, PhaseInv, PastIsGone, EngineThreads
<1>2. /\ pc' = pc \/ pc' = [pc EXCEPT ![g] = "launched"]
      /\ UNCHANGED << mine, made, running >>
  BY DEF EgressEnds, ReportEnd
<1>3. /\ \A u \in Threads : u # g => pc'[u] = pc[u]
      /\ pc'[g] \in {"idle", "launched"}
  BY <1>1, <1>2 DEF LifeInv, CountInv, TypeOK
<1>4. \A u \in Threads : InStart(u)' => InStart(u) /\ u # g
  BY <1>3 DEF InStart, StartStates
<1>5. \A c \in Callers : pc'[c] # "launched"
  BY <1>1, <1>3, CallersApart DEF SettlingInv
<1>6. \A u, v \in Threads : InStart(u)' /\ v # u => pc'[v] = "idle" \/ (v \in Gen /\ v = made)
  BY <1>1, <1>3, <1>4 DEF SettlingInv
<1>7. \A u \in Threads : pc'[u] = "settle" => made \in Gen /\ running
  BY <1>1, <1>3 DEF SettlingInv
<1>8. QED
  BY <1>2, <1>4, <1>5, <1>6, <1>7 DEF SettlingInv

LEMMA SettlingStep ==
  ASSUME Overlap = FALSE, LifeInv, SettlingInv, [Next]_lifecycleVars
  PROVE  SettlingInv'
<1>1. CASE UNCHANGED lifecycleVars
  BY <1>1, RestKeepsSettling DEF lifecycleVars, fields, threadVars, engineVars
<1>2. ASSUME NEW t \in Threads, StartClaim(t) PROVE SettlingInv'
  <2>1. /\ \A u \in Threads : pc[u] = "idle"
        /\ pc' = [pc EXCEPT ![t] = "create"]
        /\ mine' = [mine EXCEPT ![t] = made + 1] /\ made' = made + 1
    BY <1>2 DEF StartClaim
  <2>2. /\ pc'[t] = "create" /\ mine'[t] = made'
        /\ \A u \in Threads : u # t => pc'[u] = "idle"
    BY <2>1 DEF LifeInv, CountInv, TypeOK
  <2>3. QED
    BY <2>2, CallersApart DEF SettlingInv, InStart, StartStates
<1>3. ASSUME NEW t \in Threads, StartStep(t) PROVE SettlingInv'
  <2>1. ASSUME Create(t) \/ CreateFails(t) \/ Connect(t) \/ ConnectFails(t) \/ Arm(t)
        PROVE  SettlingInv'
    BY <2>1, BuildKeepsSettling
    DEF Create, CreateFails, Connect, ConnectFails, Arm, Moves, Building
  <2>2. CASE Spawn(t)
    BY <2>2, SpawnKeepsSettling
  <2>3. CASE Settle(t)
    BY <2>3, StopKeepsSettling DEF Settle, Moves, fields, engineVars
  <2>4. QED
    BY <1>3, <2>1, <2>2, <2>3 DEF StartStep
<1>4. ASSUME NEW t \in Threads, StopClaim(t) PROVE SettlingInv'
  BY <1>4, StopClaimKeepsSettling
<1>5. ASSUME NEW t \in Threads, StopStep(t) PROVE SettlingInv'
  BY <1>5, StopKeepsSettling
  DEF StopStep, Farewell, CancelContext, Unblock, Wait, CloseDevice, Shutdown, Moves,
      StopStates, fields, engineVars
<1>6. ASSUME NEW t \in Threads, Join(t) PROVE SettlingInv'
  BY <1>6, RestKeepsSettling DEF Join, fields, threadVars, engineVars
<1>7. ASSUME NEW g \in Gen, EgressEnds(g) PROVE SettlingInv'
  BY <1>7, EgressEndKeepsSettling
<1>8. ASSUME NEW g \in Gen, ReaderEnds(g) PROVE SettlingInv'
  BY <1>8, RestKeepsSettling DEF ReaderEnds, threadVars
<1>9. QED
  BY <1>1, <1>2, <1>3, <1>4, <1>5, <1>6, <1>7, <1>8 DEF Next

\* A Start whose --peer is yet to be asked finds the bridge up, unless its own
\* egress loop has failed: whoever took the bridge down first cleared the flag.
LEMMA SettlesOnABridge ==
  ASSUME LifeInv, SettlingInv, NEW t \in Threads, pc[t] = "settle", ~steam
  PROVE  egress[mine[t]] = "ended"
<1>1. InStart(t) /\ mine[t] = made
  BY DEF SettlingInv, InStart, StartStates
<1>2. ~running
  <2>1. CASE \E u \in Threads : AtWork(u)
    <3>1. PICK u \in Threads : AtWork(u)
      BY <2>1
    <3>2. pc[u] \notin Building
      BY DEF LifeInv, PhaseInv, BuildsAlone, Building
    <3>3. QED
      BY <3>1, <3>2 DEF AtWork, LifeInv, PhaseInv, TornDown
  <2>2. CASE \A u \in Threads : ~AtWork(u)
    BY <2>2 DEF LifeInv, PhaseInv, Settled, UpAndRunning, Whole
  <2>3. QED
    BY <2>1, <2>2
<1>3. QED
  BY <1>1, <1>2 DEF SettlingInv

\* The calls before the last find the bridge up: Start is past Connect and
\* nobody else is at work, or a Stop has only begun.
Misses == {"start", "stop"} \cap misuse = {}

LEMMA MissesStep ==
  ASSUME LifeInv, Misses, [Next]_lifecycleVars
  PROVE  Misses'
<1>1. CASE UNCHANGED lifecycleVars
  BY <1>1 DEF lifecycleVars, Misses
<1>2. ASSUME NEW t \in Threads, Arm(t) PROVE Misses'
  <2>1. pc[t] = "arm" /\ Use("start")
    BY <1>2 DEF Arm, Moves
  <2>2. steam
    BY <2>1 DEF LifeInv, PhaseInv, Built, Building
  <2>3. QED
    BY <2>1, <2>2 DEF Use, Misses
<1>3. ASSUME NEW t \in Threads, Farewell(t) PROVE Misses'
  <2>1. pc[t] = "farewell"
    BY <1>3 DEF Farewell, Moves
  <2>2. steam
    BY <2>1 DEF LifeInv, PhaseInv, TornDown, UpAndRunning, Whole
  <2>3. QED
    BY <1>3, <2>2 DEF Farewell, Use, Misses
<1>4. ASSUME NEW t \in Threads, Settle(t) PROVE Misses'
  BY <1>4 DEF Settle, Use, Misses
<1>5. ASSUME NEW t \in Threads, Join(t) PROVE Misses'
  BY <1>5 DEF Join, Use, Misses
<1>6. ASSUME UNCHANGED misuse PROVE Misses'
  BY <1>6 DEF Misses
<1>7. QED
  BY <1>1, <1>2, <1>3, <1>4, <1>5, <1>6
  DEF Next, StartClaim, StartStep, StopClaim, StopStep, Create, CreateFails, Connect,
      ConnectFails, Spawn, CancelContext, Unblock, Wait, CloseDevice, Shutdown, EgressEnds,
      ReaderEnds

\* No call of Start or Stop, nor a Stop the engine launches, meets a bridge
\* that is down, but for the request to the --peer of a Start whose egress loop
\* has failed (steambridge_facade.go l.112, 122-132, 151, 173-176), where no
\* Start runs beside other calls.
THEOREM NoCallMeetsADeadBridge ==
  ASSUME Overlap = FALSE PROVE Spec => []CallsMeetABridge
<1>1. Init => Misses /\ SettlingInv
  BY CallersApart DEF Init, Misses, SettlingInv, InStart, StartStates
<1>2. LifeInv /\ Misses /\ SettlingInv => CallsMeetABridge
  BY SettlesOnABridge DEF CallsMeetABridge, Misses
<1>3. LifeInv /\ Misses /\ [Next]_lifecycleVars => Misses'
  BY MissesStep
<1>4. LifeInv /\ SettlingInv /\ [Next]_lifecycleVars => SettlingInv'
  BY SettlingStep
<1>5. QED
  BY <1>1, <1>2, <1>3, <1>4, LifeInvariant, PTL DEF Spec
=============================================================================
