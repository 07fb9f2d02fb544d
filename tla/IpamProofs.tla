----------------------------- MODULE IpamProofs -----------------------------
(***************************************************************************)
(* Facts about the pool's two operations, for every set of peers and every *)
(* range of addresses.  They are stated on the operators of Ipam, so that  *)
(* the pool alone and the pools of the handshake both rest on them.        *)
(***************************************************************************)
EXTENDS Ipam, TLAPS, SequenceTheorems

\* A new pool is sound (pool.go NewPool).
LEMMA NewPoolSound == PoolSound(NewPool)
<1> USE PoolAssumption DEF NewPool, NoIP, Addr
<1>1. NewPool \in Pool
  BY DEF Pool
<1>2. Leased(NewPool) = {}
  BY DEF Leased
<1>3. ToSet(NewPool.released) = {}
  BY DEF ToSet
<1>4. FirstHost .. (NewPool.hostCounter - 1) = {}
  OBVIOUS
<1>5. QED
  BY <1>1, <1>2, <1>3, <1>4
  DEF PoolSound, NoDoubleLeaseIn, FreeListSoundIn, NothingLostIn, Holds

\* What the type of a pool says of its parts.
LEMMA PoolParts ==
  ASSUME NEW pool \in Pool
  PROVE  /\ pool.hostCounter \in Int
         /\ FirstHost <= pool.hostCounter
         /\ pool.hostCounter <= MaxHost + 1
         /\ pool.leases \in [Peers -> Addr \cup {NoIP}]
         /\ pool.released \in Seq(Addr)
         /\ NoIP \notin Addr
  BY PoolAssumption DEF Pool, Addr, NoIP

\* The set of a sequence's elements without its head.
LEMMA TailElements ==
  ASSUME NEW S, NEW s \in Seq(S), s # << >>
  PROVE  /\ Head(s) \in S
         /\ Tail(s) \in Seq(S)
         /\ Len(Tail(s)) = Len(s) - 1
         /\ \A i \in 1 .. Len(s) - 1 : Tail(s)[i] = s[i + 1]
         /\ ToSet(s) = {Head(s)} \cup ToSet(Tail(s))
         /\ DOMAIN s = 1 .. Len(s)
         /\ DOMAIN Tail(s) = 1 .. Len(s) - 1
         /\ Len(s) \in Nat \ {0}
         /\ Head(s) = s[1]
<1>1. /\ Head(s) \in S
      /\ Tail(s) \in Seq(S)
      /\ Len(Tail(s)) = Len(s) - 1
      /\ \A i \in 1 .. Len(Tail(s)) : Tail(s)[i] = s[i + 1]
  BY HeadTailProperties
<1>2. Len(s) \in Nat \ {0} /\ DOMAIN s = 1 .. Len(s)
  BY EmptySeq, LenProperties
<1>3. DOMAIN Tail(s) = 1 .. Len(s) - 1
  BY <1>1, <1>2, LenProperties
<1>4. Head(s) = s[1]
  OBVIOUS
<1>5. ToSet(s) = {Head(s)} \cup ToSet(Tail(s))
  <2>1. \A x \in ToSet(s) : x \in {Head(s)} \cup ToSet(Tail(s))
    <3>1. ASSUME NEW i \in 1 .. Len(s)
          PROVE  s[i] \in {Head(s)} \cup ToSet(Tail(s))
      <4>1. CASE i = 1
        BY <4>1, <1>4
      <4>2. CASE i # 1
        <5>1. i - 1 \in DOMAIN Tail(s) /\ Tail(s)[i - 1] = s[i]
          BY <4>2, <1>1, <1>2, <1>3
        <5>2. QED
          BY <5>1 DEF ToSet
      <4>3. QED
        BY <4>1, <4>2
    <3>2. QED
      BY <3>1, <1>2 DEF ToSet
  <2>2. Head(s) \in ToSet(s)
    BY <1>2, <1>4 DEF ToSet
  <2>3. \A x \in ToSet(Tail(s)) : x \in ToSet(s)
    BY <1>1, <1>2, <1>3 DEF ToSet
  <2>4. QED
    BY <2>1, <2>2, <2>3
<1>6. QED
  BY <1>1, <1>2, <1>3, <1>4, <1>5

\* The four outcomes of a request (pool.go Allocate l.38-56).
LEMMA AllocateCases ==
  ASSUME NEW pool \in Pool, NEW id \in Peers
  PROVE  \/ /\ Holds(pool, id)
            /\ Granted(pool, id) = pool.leases[id]
            /\ AfterAllocate(pool, id) = pool
         \/ /\ ~Holds(pool, id)
            /\ pool.released # << >>
            /\ Granted(pool, id) = Head(pool.released)
            /\ AfterAllocate(pool, id) =
                 [hostCounter |-> pool.hostCounter,
                  leases |-> [pool.leases EXCEPT ![id] = Head(pool.released)],
                  released |-> Tail(pool.released)]
         \/ /\ ~Holds(pool, id)
            /\ pool.released = << >>
            /\ pool.hostCounter <= MaxHost
            /\ Granted(pool, id) = pool.hostCounter
            /\ AfterAllocate(pool, id) =
                 [hostCounter |-> pool.hostCounter + 1,
                  leases |-> [pool.leases EXCEPT ![id] = pool.hostCounter],
                  released |-> << >>]
         \/ /\ ~Holds(pool, id)
            /\ pool.released = << >>
            /\ pool.hostCounter = MaxHost + 1
            /\ Granted(pool, id) = NoIP
            /\ AfterAllocate(pool, id) = pool
<1>0. /\ pool.hostCounter \in Int
      /\ pool.hostCounter <= MaxHost + 1
      /\ MaxHost \in Int
      /\ pool.leases \in [Peers -> Addr \cup {NoIP}]
  BY PoolParts, PoolAssumption
<1>1. CASE Holds(pool, id)
  BY <1>1 DEF Granted, AfterAllocate
<1>2. CASE ~Holds(pool, id) /\ pool.released # << >>
  <2>1. Granted(pool, id) = Head(pool.released)
    BY <1>2 DEF Granted
  <2>2. pool.hostCounter + 0 = pool.hostCounter
    BY <1>0
  <2>3. QED
    BY <1>2, <2>1, <2>2 DEF AfterAllocate
<1>3. CASE ~Holds(pool, id) /\ pool.released = << >> /\ pool.hostCounter <= MaxHost
  <2>1. Granted(pool, id) = pool.hostCounter
    BY <1>3 DEF Granted
  <2>2. QED
    BY <1>3, <2>1 DEF AfterAllocate
<1>4. CASE ~Holds(pool, id) /\ pool.released = << >> /\ ~(pool.hostCounter <= MaxHost)
  <2>1. Granted(pool, id) = NoIP
    BY <1>4 DEF Granted
  <2>2. [pool.leases EXCEPT ![id] = NoIP] = pool.leases
    BY <1>0, <1>4 DEF Holds
  <2>3. pool.hostCounter + 0 = pool.hostCounter
    BY <1>0
  <2>4. AfterAllocate(pool, id) =
          [hostCounter |-> pool.hostCounter, leases |-> pool.leases,
           released |-> pool.released]
    BY <1>4, <2>1, <2>2, <2>3 DEF AfterAllocate
  <2>5. AfterAllocate(pool, id) = pool
    BY <2>4 DEF Pool
  <2>6. pool.hostCounter = MaxHost + 1
    BY <1>0, <1>4
  <2>7. QED
    BY <1>4, <2>1, <2>5, <2>6
<1>5. QED
  BY <1>1, <1>2, <1>3, <1>4

\* A refused request changes nothing.
LEMMA RefusalChangesNothing ==
  ASSUME NEW pool \in Pool, NEW id \in Peers,
         ~Holds(pool, id), Granted(pool, id) = NoIP
  PROVE  AfterAllocate(pool, id) = pool
<1>1. CASE pool.released # << >> /\ Granted(pool, id) = Head(pool.released)
  <2>1. Head(pool.released) \in Addr
    BY <1>1, PoolParts, TailElements
  <2>2. QED
    BY <1>1, <2>1, PoolParts
<1>2. CASE pool.hostCounter <= MaxHost /\ Granted(pool, id) = pool.hostCounter
  BY <1>2, PoolParts, PoolAssumption DEF NoIP
<1>3. QED
  BY <1>1, <1>2, AllocateCases

\* Who holds what after one lease changed.
LEMMA LeasedAfterChange ==
  ASSUME NEW old \in [Peers -> Addr \cup {NoIP}], NEW id \in Peers,
         NEW a \in Addr \cup {NoIP},
         \A p, q \in Peers : old[p] # NoIP /\ old[p] = old[q] => p = q
  PROVE  {[old EXCEPT ![id] = a][p] : p \in Peers} \ {NoIP}
           = ((({old[p] : p \in Peers} \ {NoIP}) \ {old[id]}) \cup {a}) \ {NoIP}
<1> DEFINE new == [old EXCEPT ![id] = a]
<1>1. \A p \in Peers : new[p] = IF p = id THEN a ELSE old[p]
  OBVIOUS
<1>2. ASSUME NEW x, x # NoIP
      PROVE  x \in {new[p] : p \in Peers}
               <=> x \in ({old[p] : p \in Peers} \ {old[id]}) \cup {a}
  <2>1. ASSUME x \in {new[p] : p \in Peers}
        PROVE  x \in ({old[p] : p \in Peers} \ {old[id]}) \cup {a}
    BY <1>1, <1>2, <2>1
  <2>2. CASE x = a
    BY <1>1, <2>2
  <2>3. ASSUME x \in {old[p] : p \in Peers}, x # old[id]
        PROVE  x \in {new[p] : p \in Peers}
    BY <1>1, <2>3
  <2>4. QED
    BY <2>1, <2>2, <2>3
<1> HIDE DEF new
<1>3. {new[p] : p \in Peers} \ {NoIP}
        = ((({old[p] : p \in Peers} \ {NoIP}) \ {old[id]}) \cup {a}) \ {NoIP}
  BY <1>2
<1>4. QED
  BY <1>3 DEF new

\* A sound pool stays sound when a new holder gets an address nobody holds.
LEMMA GrantKeepsLeasesApart ==
  ASSUME NEW pool, PoolSound(pool), NEW q, NEW id \in Peers, NEW a \in Addr,
         ~Holds(pool, id), a \notin Leased(pool),
         q.leases = [pool.leases EXCEPT ![id] = a]
  PROVE  NoDoubleLeaseIn(q) /\ Leased(q) = Leased(pool) \cup {a}
<1>1. /\ pool.leases \in [Peers -> Addr \cup {NoIP}]
      /\ NoIP \notin Addr
      /\ \A r, p \in Peers : pool.leases[r] # NoIP /\ pool.leases[r] = pool.leases[p] => r = p
  BY PoolParts DEF PoolSound, NoDoubleLeaseIn, Holds
<1>2. \A p \in Peers : q.leases[p] = IF p = id THEN a ELSE pool.leases[p]
  BY <1>1
<1>3. pool.leases[id] = NoIP
  BY DEF Holds
<1>4. \A p \in Peers : pool.leases[p] # a
  BY <1>1 DEF Leased
<1>5. NoDoubleLeaseIn(q)
  BY <1>1, <1>2, <1>4 DEF NoDoubleLeaseIn, Holds
<1>6. {[pool.leases EXCEPT ![id] = a][p] : p \in Peers} \ {NoIP}
        = (((Leased(pool)) \ {pool.leases[id]}) \cup {a}) \ {NoIP}
  BY <1>1, LeasedAfterChange DEF Leased
<1>7. Leased(q) = Leased(pool) \cup {a}
  BY <1>1, <1>3, <1>6 DEF Leased
<1>8. QED
  BY <1>5, <1>7

\* A request keeps a pool sound, whatever its outcome (pool.go Allocate).
LEMMA AllocateSound ==
  ASSUME NEW pool, PoolSound(pool), NEW id \in Peers
  PROVE  PoolSound(AfterAllocate(pool, id))
<1> DEFINE q == AfterAllocate(pool, id)
<1>0. /\ pool \in Pool
      /\ pool.hostCounter \in Int
      /\ FirstHost <= pool.hostCounter
      /\ pool.hostCounter <= MaxHost + 1
      /\ FirstHost \in Int /\ MaxHost \in Int
      /\ pool.leases \in [Peers -> Addr \cup {NoIP}]
      /\ pool.released \in Seq(Addr)
      /\ FreeListSoundIn(pool)
      /\ NothingLostIn(pool)
  BY PoolParts, PoolAssumption DEF PoolSound
<1>1. CASE q = pool
  BY <1>1
<1>2. CASE /\ ~Holds(pool, id)
           /\ pool.released # << >>
           /\ q = [hostCounter |-> pool.hostCounter,
                   leases |-> [pool.leases EXCEPT ![id] = Head(pool.released)],
                   released |-> Tail(pool.released)]
  <2> DEFINE a == Head(pool.released)
  <2>1. /\ a \in Addr
        /\ Tail(pool.released) \in Seq(Addr)
        /\ \A i \in 1 .. Len(pool.released) - 1 :
             Tail(pool.released)[i] = pool.released[i + 1]
        /\ ToSet(pool.released) = {a} \cup ToSet(Tail(pool.released))
        /\ DOMAIN pool.released = 1 .. Len(pool.released)
        /\ DOMAIN Tail(pool.released) = 1 .. Len(pool.released) - 1
        /\ Len(pool.released) \in Nat \ {0}
        /\ a = pool.released[1]
    BY <1>0, <1>2, TailElements
  <2>2. a \notin Leased(pool)
    BY <1>0, <2>1 DEF FreeListSoundIn
  <2> HIDE DEF a
  <2>3. q.leases = [pool.leases EXCEPT ![id] = a]
        /\ q.released = Tail(pool.released)
        /\ q.hostCounter = pool.hostCounter
    BY <1>2 DEF a
  <2> HIDE DEF q
  <2>4. NoDoubleLeaseIn(q) /\ Leased(q) = Leased(pool) \cup {a}
    <3>1. a \in Addr /\ ~Holds(pool, id)
      BY <1>2, <2>1
    <3>2. QED
      BY <2>2, <2>3, <3>1, GrantKeepsLeasesApart
  <2>5. q \in Pool
    BY <1>0, <1>2, <2>1 DEF Pool, a, q
  <2>6. FreeListSoundIn(q)
    <3>1. ASSUME NEW i \in DOMAIN q.released
          PROVE  /\ i + 1 \in DOMAIN pool.released
                 /\ i + 1 # 1
                 /\ q.released[i] = pool.released[i + 1]
      BY <2>1, <2>3
    <3>2. \A i \in DOMAIN q.released : q.released[i] \notin Leased(q)
      <4>1. ASSUME NEW i \in DOMAIN q.released
            PROVE  q.released[i] \notin Leased(pool) /\ q.released[i] # a
        BY <1>0, <2>1, <3>1 DEF FreeListSoundIn
      <4>2. QED
        BY <2>4, <4>1
    <3>3. ASSUME NEW i \in DOMAIN q.released, NEW j \in DOMAIN q.released,
                 q.released[i] = q.released[j]
          PROVE  i = j
      <4>1. i + 1 = j + 1
        BY <1>0, <3>1, <3>3 DEF FreeListSoundIn
      <4>2. i \in Int /\ j \in Int
        BY <2>1, <2>3
      <4>3. QED
        BY <4>1, <4>2
    <3>4. QED
      BY <3>2, <3>3 DEF FreeListSoundIn
  <2>7. NothingLostIn(q)
    BY <1>0, <2>1, <2>3, <2>4 DEF NothingLostIn
  <2>8. QED
    BY <2>4, <2>5, <2>6, <2>7 DEF PoolSound, q
<1>3. CASE /\ ~Holds(pool, id)
           /\ pool.released = << >>
           /\ pool.hostCounter <= MaxHost
           /\ q = [hostCounter |-> pool.hostCounter + 1,
                   leases |-> [pool.leases EXCEPT ![id] = pool.hostCounter],
                   released |-> << >>]
  <2> DEFINE a == pool.hostCounter
  <2>1. a \in Addr
    BY <1>0, <1>3 DEF Addr
  <2>2. ToSet(pool.released) = {}
    BY <1>3 DEF ToSet
  <2>3. Leased(pool) = FirstHost .. (a - 1)
    BY <1>0, <2>2 DEF NothingLostIn
  <2>4. a \notin Leased(pool)
    BY <1>0, <2>3
  <2>5. q.leases = [pool.leases EXCEPT ![id] = a]
        /\ q.released = << >>
        /\ q.hostCounter = a + 1
    BY <1>3
  <2> HIDE DEF q
  <2>6. NoDoubleLeaseIn(q) /\ Leased(q) = Leased(pool) \cup {a}
    BY <1>3, <2>1, <2>4, <2>5, GrantKeepsLeasesApart
  <2>7. q \in Pool
    <3>1. << >> \in Seq(Addr)
      OBVIOUS
    <3>2. [pool.leases EXCEPT ![id] = a] \in [Peers -> Addr \cup {NoIP}]
      BY <1>0, <2>1
    <3>3. a + 1 \in FirstHost .. MaxHost + 1
      BY <1>0, <1>3
    <3>4. QED
      BY <1>3, <3>1, <3>2, <3>3 DEF Pool, q
  <2>8. FreeListSoundIn(q)
    BY <2>5 DEF FreeListSoundIn
  <2>9. NothingLostIn(q)
    <3>1. ToSet(q.released) = {}
      BY <2>5 DEF ToSet
    <3>2. FirstHost .. a = (FirstHost .. (a - 1)) \cup {a}
      BY <1>0
    <3>3. (a + 1) - 1 = a
      BY <1>0
    <3>4. QED
      BY <2>3, <2>5, <2>6, <3>1, <3>2, <3>3 DEF NothingLostIn
  <2>10. QED
    BY <2>6, <2>7, <2>8, <2>9 DEF PoolSound, q
<1>4. QED
  BY <1>0, <1>1, <1>2, <1>3, AllocateCases

\* An answer is the peer's own lease, or an address nobody holds, or NoIP,
\* and the last only when every address is leased.
LEMMA GrantedIsFree ==
  ASSUME NEW pool, PoolSound(pool), NEW id \in Peers, ~Holds(pool, id)
  PROVE  \/ Granted(pool, id) \in Addr \ Leased(pool)
         \/ Granted(pool, id) = NoIP /\ Leased(pool) = Addr
<1>0. /\ pool \in Pool
      /\ pool.hostCounter \in Int
      /\ FirstHost <= pool.hostCounter
      /\ FirstHost \in Int /\ MaxHost \in Int
      /\ pool.released \in Seq(Addr)
      /\ FreeListSoundIn(pool)
      /\ NothingLostIn(pool)
  BY PoolParts, PoolAssumption DEF PoolSound
<1>1. CASE pool.released # << >> /\ Granted(pool, id) = Head(pool.released)
  BY <1>0, <1>1, TailElements DEF FreeListSoundIn
<1>2. ASSUME pool.released = << >>
      PROVE  Leased(pool) = FirstHost .. (pool.hostCounter - 1)
  <2>1. ToSet(pool.released) = {}
    BY <1>2 DEF ToSet
  <2>2. QED
    BY <1>0, <2>1 DEF NothingLostIn
<1>3. CASE /\ pool.released = << >> /\ pool.hostCounter <= MaxHost
           /\ Granted(pool, id) = pool.hostCounter
  BY <1>0, <1>2, <1>3 DEF Addr
<1>4. CASE /\ pool.released = << >> /\ pool.hostCounter = MaxHost + 1
           /\ Granted(pool, id) = NoIP
  BY <1>0, <1>2, <1>4 DEF Addr
<1>5. QED
  BY <1>0, <1>1, <1>3, <1>4, AllocateCases

\* Giving a lease back keeps a pool sound, also when there is none
\* (pool.go ReleaseBySteamID).
LEMMA ReleaseSound ==
  ASSUME NEW pool, PoolSound(pool), NEW id \in Peers
  PROVE  PoolSound(AfterRelease(pool, id))
<1> DEFINE q == AfterRelease(pool, id)
           a == pool.leases[id]
<1>0. /\ pool \in Pool
      /\ pool.hostCounter \in FirstHost .. MaxHost + 1
      /\ pool.leases \in [Peers -> Addr \cup {NoIP}]
      /\ pool.released \in Seq(Addr)
      /\ NoIP \notin Addr
      /\ FreeListSoundIn(pool)
      /\ NothingLostIn(pool)
      /\ \A r, p \in Peers : pool.leases[r] # NoIP /\ pool.leases[r] = pool.leases[p] => r = p
  BY PoolParts, PoolAssumption DEF PoolSound, NoDoubleLeaseIn, Holds, Pool
<1>1. CASE ~Holds(pool, id)
  BY <1>1 DEF AfterRelease
<1>2. CASE Holds(pool, id)
  <2>1. a \in Addr /\ a \in Leased(pool)
    BY <1>0, <1>2 DEF Holds, Leased
  <2>2. /\ q.hostCounter = pool.hostCounter
        /\ q.leases = [pool.leases EXCEPT ![id] = NoIP]
        /\ q.released = Append(pool.released, a)
        /\ q \in Pool
    <3>1. Append(pool.released, a) \in Seq(Addr)
      BY <1>0, <2>1, AppendProperties
    <3>2. [pool.leases EXCEPT ![id] = NoIP] \in [Peers -> Addr \cup {NoIP}]
      BY <1>0
    <3>3. q = [pool EXCEPT !.leases = [pool.leases EXCEPT ![id] = NoIP],
                           !.released = Append(pool.released, a)]
      BY <1>2 DEF AfterRelease
    <3>4. QED
      BY <1>0, <3>1, <3>2, <3>3 DEF Pool
  <2>3. /\ DOMAIN pool.released = 1 .. Len(pool.released)
        /\ DOMAIN q.released = 1 .. Len(pool.released) + 1
        /\ Len(pool.released) \in Nat
        /\ q.released[Len(pool.released) + 1] = a
        /\ \A i \in DOMAIN pool.released : q.released[i] = pool.released[i]
    BY <1>0, <2>1, <2>2, AppendProperties, LenProperties
  <2> HIDE DEF q
  <2>4. Leased(q) = Leased(pool) \ {a}
    BY <1>0, <2>2, LeasedAfterChange DEF Leased
  <2>5. NoDoubleLeaseIn(q)
    BY <1>0, <2>2 DEF NoDoubleLeaseIn, Holds
  <2>6. \A i \in DOMAIN pool.released : pool.released[i] # a
    BY <1>0, <2>1 DEF FreeListSoundIn
  <2>7. FreeListSoundIn(q)
    <3>1. \A i \in DOMAIN q.released : q.released[i] \notin Leased(q)
      BY <1>0, <2>3, <2>4 DEF FreeListSoundIn
    <3>2. \A i, j \in DOMAIN q.released :
            q.released[i] = q.released[j] => i = j
      BY <1>0, <2>3, <2>6 DEF FreeListSoundIn
    <3>3. QED
      BY <3>1, <3>2 DEF FreeListSoundIn
  <2>8. NothingLostIn(q)
    <3>1. ToSet(q.released) = ToSet(pool.released) \cup {a}
      BY <2>3 DEF ToSet
    <3>2. QED
      BY <1>0, <2>1, <2>2, <2>4, <3>1 DEF NothingLostIn
  <2>9. QED
    BY <2>2, <2>5, <2>7, <2>8 DEF PoolSound, q
<1>3. QED
  BY <1>1, <1>2
=============================================================================
