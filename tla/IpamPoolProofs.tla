--------------------------- MODULE IpamPoolProofs ---------------------------
(***************************************************************************)
(* Theorems of IpamPool, for every set of peers and every address range.   *)
(***************************************************************************)
EXTENDS IpamPool, IpamProofs

\* The inductive invariant: the pool is sound, and the last answer, if it was
\* a refusal, was given by a full pool.
IInv ==
  /\ PoolSound(pool)
  /\ TypeOK
  /\ RefusedOnlyWhenFull

\* A request answers with a number of the range or NoIP, and refuses only when
\* the pool it leaves is full.
LEMMA AllocateAnswers ==
  ASSUME PoolSound(pool), NEW id \in Peers, Allocate(id)
  PROVE  /\ reply'.ip \in Addr \cup {NoIP}
         /\ reply'.ip = NoIP => Leased(pool') = Addr
<1>1. reply'.ip = Granted(pool, id) /\ pool' = AfterAllocate(pool, id)
  BY DEF Allocate
<1>2. pool \in Pool
  BY DEF PoolSound
<1>3. pool.leases \in [Peers -> Addr \cup {NoIP}] /\ NoIP \notin Addr
  BY <1>2, PoolParts
<1>4. CASE Holds(pool, id)
  BY <1>1, <1>3, <1>4 DEF Granted, Holds
<1>5. CASE ~Holds(pool, id) /\ Granted(pool, id) \in Addr
  BY <1>1, <1>3, <1>5
<1>6. CASE ~Holds(pool, id) /\ Granted(pool, id) = NoIP /\ Leased(pool) = Addr
  <2>1. AfterAllocate(pool, id) = pool
    BY <1>2, <1>6, RefusalChangesNothing
  <2>2. QED
    BY <1>1, <1>6, <2>1
<1>7. QED
  BY <1>4, <1>5, <1>6, GrantedIsFree

\* The invariant holds in every reachable state.
LEMMA Invariance == Spec => []IInv
<1>1. Init => IInv
  <2> SUFFICES ASSUME Init PROVE IInv
    OBVIOUS
  <2>1. PoolSound(pool)
    BY NewPoolSound DEF Init
  <2>2. QED
    BY <2>1 DEF Init, IInv, TypeOK, PoolSound, RefusedOnlyWhenFull
<1>2. IInv /\ [Next]_vars => IInv'
  <2> SUFFICES ASSUME IInv, [Next]_vars PROVE IInv'
    OBVIOUS
  <2>1. ASSUME NEW id \in Peers, Allocate(id) PROVE IInv'
    <3>1. PoolSound(pool')
      BY <2>1, AllocateSound DEF IInv, Allocate
    <3>2. RefusedOnlyWhenFull'
      BY <2>1, AllocateAnswers DEF IInv, RefusedOnlyWhenFull
    <3>3. TypeOK'
      BY <2>1, <3>1, AllocateAnswers DEF IInv, TypeOK, PoolSound, Allocate
    <3>4. QED
      BY <3>1, <3>2, <3>3 DEF IInv
  <2>2. ASSUME NEW id \in Peers, ReleaseBySteamID(id) PROVE IInv'
    <3>1. PoolSound(pool')
      BY <2>2, ReleaseSound DEF IInv, ReleaseBySteamID
    <3>2. RefusedOnlyWhenFull'
      BY <2>2 DEF RefusedOnlyWhenFull, ReleaseBySteamID
    <3>3. pool.leases[id] \in Addr \cup {NoIP}
      BY PoolParts DEF IInv, PoolSound
    <3>4. TypeOK'
      BY <2>2, <3>1, <3>3 DEF TypeOK, PoolSound, ReleaseBySteamID
    <3>5. QED
      BY <3>1, <3>2, <3>4 DEF IInv
  <2>3. CASE UNCHANGED vars
    BY <2>3 DEF IInv, TypeOK, RefusedOnlyWhenFull, vars
  <2>4. QED
    BY <2>1, <2>2, <2>3 DEF Next
<1>3. QED
  BY <1>1, <1>2, PTL DEF Spec

\* The pool's state and answers keep their types (pool.go Pool).
THEOREM TypeCorrect == Spec => []TypeOK
<1>1. IInv => TypeOK
  BY DEF IInv
<1>2. QED
  BY <1>1, Invariance, PTL

\* No two peers ever hold the same address (pool.go Allocate).
THEOREM NeverDoublyLeased == Spec => []NoDoubleLease
<1>1. IInv => NoDoubleLease
  BY DEF IInv, PoolSound, NoDoubleLease
<1>2. QED
  BY <1>1, Invariance, PTL

\* No address is ever lost or listed while leased (pool.go l.48-56, 69-70).
THEOREM BooksAlwaysBalance == Spec => []BooksBalance
<1>1. IInv => BooksBalance
  BY DEF IInv, PoolSound, BooksBalance
<1>2. QED
  BY <1>1, Invariance, PTL

\* A refusal means that every address is leased (pool.go l.31-33).
THEOREM RefusalMeansFull == Spec => []RefusedOnlyWhenFull
<1>1. IInv => RefusedOnlyWhenFull
  BY DEF IInv
<1>2. QED
  BY <1>1, Invariance, PTL

\* A call takes at most the head from the free-list.
LEMMA OnlyTheOldestLeaves ==
  ASSUME NEW id \in Peers, pool \in Pool, Allocate(id) \/ ReleaseBySteamID(id),
         NEW j \in DOMAIN pool.released, pool.released[j] \notin ToSet(pool'.released)
  PROVE  j = 1
<1>. PICK list : list = pool.released
  OBVIOUS
<1>1. /\ list \in Seq(Addr) /\ Len(list) \in Nat /\ DOMAIN list = 1 .. Len(list)
      /\ j \in 1 .. Len(list) /\ list[j] \in Addr
      /\ pool.leases \in [Peers -> Addr \cup {NoIP}]
  BY LenProperties, ElementOfSeq DEF Pool
<1>2. list[j] \in ToSet(list)
  BY <1>1 DEF ToSet
<1>3. pool' # pool
  BY <1>2
<1>4. CASE Allocate(id)
  <2>1. ~Holds(pool, id) /\ pool'.released = Tail(list)
    BY <1>1, <1>3, <1>4 DEF Allocate, AfterAllocate
  <2>2. ASSUME j # 1 PROVE FALSE
    <3>. PICK t : t = Tail(list)
      OBVIOUS
    <3>1. /\ t \in Seq(Addr) /\ Len(t) = Len(list) - 1
          /\ \A i \in 1 .. Len(list) - 1 : t[i] = list[i + 1]
      BY <1>1, EmptySeq, HeadTailProperties
    <3>2. j - 1 \in 1 .. Len(t) /\ t[j - 1] = list[j]
      BY <1>1, <2>2, <3>1
    <3>3. DOMAIN t = 1 .. Len(t)
      BY <3>1, LenProperties
    <3>4. list[j] \in ToSet(t)
      BY <3>2, <3>3 DEF ToSet
    <3>5. QED
      BY <2>1, <3>4
  <2>3. QED
    BY <2>2
<1>5. CASE ReleaseBySteamID(id)
  <2>1. /\ Holds(pool, id) /\ pool.leases[id] \in Addr
        /\ pool'.released = Append(list, pool.leases[id])
    BY <1>1, <1>3, <1>5 DEF ReleaseBySteamID, AfterRelease, Holds, Pool
  <2>. PICK t : t = Append(list, pool.leases[id])
    OBVIOUS
  <2>2. /\ t \in Seq(Addr) /\ Len(t) = Len(list) + 1 /\ t[j] = list[j]
    BY <1>1, <2>1, AppendProperties
  <2>3. j \in DOMAIN t
    BY <1>1, <2>2, LenProperties
  <2>4. list[j] \in ToSet(t)
    BY <2>2, <2>3 DEF ToSet
  <2>5. QED
    BY <2>1, <2>4
<1>6. QED
  BY <1>4, <1>5

\* Freed addresses are reused oldest first, whoever asks and frees meanwhile
\* (pool.go l.17, 40-43).
THEOREM ReuseIsOldestFirst == Spec => OldestFirst
<1>1. ASSUME IInv, [Next]_vars
      PROVE  [\A i, j \in DOMAIN pool.released :
                i < j /\ pool.released[j] \notin ToSet(pool'.released)
                  => pool.released[i] \notin ToSet(pool'.released)]_vars
  <2>1. SUFFICES ASSUME ~UNCHANGED vars, NEW i \in DOMAIN pool.released,
                        NEW j \in DOMAIN pool.released, i < j,
                        pool.released[j] \notin ToSet(pool'.released)
                 PROVE  FALSE
    OBVIOUS
  <2>2. pool \in Pool
    BY <1>1 DEF IInv, PoolSound
  <2>3. j = 1
    BY <1>1, <2>1, <2>2, OnlyTheOldestLeaves DEF Next
  <2>4. i \in 1 .. Len(pool.released) /\ Len(pool.released) \in Nat
    BY <2>2, LenProperties DEF Pool
  <2>5. QED
    BY <2>1, <2>3, <2>4
<1>2. QED
  BY <1>1, Invariance, PTL DEF Spec, OldestFirst

\* The pool implements the abstract lease service: each call is a step of the
\* service on the leases alone (pool.go Allocate, ReleaseBySteamID).
THEOREM PoolImplementsService == Spec => ImplementsService
<1>1. Init => Service!Init
  BY DEF Init, NewPool, Service!Init
<1>2. IInv /\ [Next]_vars => [Service!Next]_(Service!svars)
  <2> SUFFICES ASSUME IInv, [Next]_vars
               PROVE  [Service!Next]_(Service!svars)
    OBVIOUS
  <2>0. /\ pool \in Pool
        /\ pool.leases \in [Peers -> Addr \cup {NoIP}]
        /\ NoIP \notin Addr
    BY PoolParts DEF IInv, PoolSound
  <2>00. Service!Free = Addr \ Leased(pool)
    BY <2>0 DEF Service!Free, Leased
  <2>1. ASSUME NEW id \in Peers, Allocate(id) PROVE Service!Next
    <3>1. CASE Holds(pool, id)
      <4>1. pool' = pool /\ Granted(pool, id) = pool.leases[id]
        BY <2>0, <2>1, <3>1, AllocateCases DEF Allocate
      <4>2. Service!Renew(id)
        BY <2>1, <3>1, <4>1 DEF Allocate, Holds, Service!Renew, Service!Answer
      <4>3. QED
        BY <4>2 DEF Service!Next
    <3>2. CASE ~Holds(pool, id) /\ Granted(pool, id) \in Addr \ Leased(pool)
      <4>1. pool'.leases = [pool.leases EXCEPT ![id] = Granted(pool, id)]
        BY <2>0, <2>1, <3>2, AllocateCases DEF Allocate
      <4>2. Service!Grant(id)
        BY <2>00, <2>1, <3>2, <4>1
        DEF Allocate, Holds, Service!Grant, Service!Answer
      <4>3. QED
        BY <4>2 DEF Service!Next
    <3>3. CASE ~Holds(pool, id) /\ Granted(pool, id) = NoIP /\ Leased(pool) = Addr
      <4>1. pool' = pool
        BY <2>0, <2>1, <3>3, RefusalChangesNothing DEF Allocate
      <4>2. Service!Refuse(id)
        BY <2>00, <2>1, <3>3, <4>1
        DEF Allocate, Holds, Service!Refuse, Service!Answer
      <4>3. QED
        BY <4>2 DEF Service!Next
    <3>4. QED
      BY <3>1, <3>2, <3>3, GrantedIsFree DEF IInv
  <2>2. ASSUME NEW id \in Peers, ReleaseBySteamID(id) PROVE Service!Next
    <3>1. pool'.leases = [pool.leases EXCEPT ![id] = NoIP]
      BY <2>0, <2>2 DEF ReleaseBySteamID, AfterRelease, Holds, Pool
    <3>2. Service!GiveBack(id)
      BY <2>2, <3>1 DEF ReleaseBySteamID, Service!GiveBack, Service!Answer
    <3>3. QED
      BY <3>2 DEF Service!Next
  <2>3. CASE UNCHANGED vars
    BY <2>3 DEF vars, Service!svars
  <2>4. QED
    BY <2>1, <2>2, <2>3 DEF Next
<1>3. QED
  BY <1>1, <1>2, Invariance, PTL DEF Spec, ImplementsService, Service!Spec
=============================================================================
