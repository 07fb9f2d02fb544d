-------------------------------- MODULE Ipam --------------------------------
(***************************************************************************)
(* The address pool of internal/ipam/pool.go as operators on its state, so *)
(* that the pool can be checked alone (IpamPool) and inside every node of  *)
(* the handshake (JoinHandshake).  The pool's mutex makes each call one    *)
(* step.                                                                   *)
(*                                                                         *)
(* An address is represented by its host number: the code ors a constant   *)
(* network prefix into it.  The map leases is total here, and NoIP stands  *)
(* for an absent key as well as for the 0 the calls return: the code never *)
(* leases 0.                                                               *)
(***************************************************************************)
EXTENDS Integers, SequencesExt

CONSTANTS Peers,      \* the Steam identities that may ask for an address
          FirstHost,  \* the first host number handed out (2 in the code)
          MaxHost     \* the last one (254 in the code)

ASSUME PoolAssumption ==
  /\ FirstHost \in Nat \ {0}
  /\ MaxHost \in Nat
  /\ FirstHost <= MaxHost + 1

NoIP == 0
Addr == FirstHost .. MaxHost

Pool == [hostCounter : FirstHost .. MaxHost + 1,
         leases : [Peers -> Addr \cup {NoIP}],
         released : Seq(Addr)]

\* Faulty variant (see below): the counter starts at the host's own address.
NewPoolFromRoot == [hostCounter |-> FirstHost - 1,
                    leases |-> [id \in Peers |-> NoIP],
                    released |-> << >>]

NewPool == [hostCounter |-> FirstHost,
            leases |-> [id \in Peers |-> NoIP],
            released |-> << >>]

Holds(pool, id) == pool.leases[id] # NoIP
Leased(pool) == {pool.leases[id] : id \in Peers} \ {NoIP}

(***************************************************************************)
(* A "faulty variant", here and in the other modules, is a plausible slip  *)
(* in the definition that follows it: it serves only to show that the      *)
(* properties would notice.                                                *)
(***************************************************************************)

\* Faulty variants: nothing is freed; the freed address is not put on the
\* free-list.
ReleaseNothing(pool, id) == pool
ReleaseAndForget(pool, id) == [pool EXCEPT !.leases = [@ EXCEPT ![id] = NoIP]]

(***************************************************************************)
(* ReleaseBySteamID(id): a peer can free its own lease and no other.       *)
(***************************************************************************)
AfterRelease(pool, id) ==
  IF Holds(pool, id)
  THEN [pool EXCEPT !.leases = [@ EXCEPT ![id] = NoIP],
                    !.released = Append(@, pool.leases[id])]
  ELSE pool

\* Faulty variants: the range has no end; freed addresses are never reused; a
\* lease is not looked up first.
GrantedPastTheEnd(pool, id) ==
  CASE Holds(pool, id)         -> pool.leases[id]
    [] pool.released # << >>   -> Head(pool.released)
    [] OTHER                   -> pool.hostCounter

GrantedFreshOnly(pool, id) ==
  CASE Holds(pool, id)             -> pool.leases[id]
    [] pool.hostCounter <= MaxHost -> pool.hostCounter
    [] OTHER                       -> NoIP

GrantedAnew(pool, id) ==
  CASE pool.released # << >>       -> Head(pool.released)
    [] pool.hostCounter <= MaxHost -> pool.hostCounter
    [] OTHER                       -> NoIP

(***************************************************************************)
(* Allocate(id): a peer keeps the lease it has; otherwise the oldest freed *)
(* address is reused, and only then a fresh one taken; NoIP when there is  *)
(* neither.                                                                *)
(***************************************************************************)
Granted(pool, id) ==
  CASE Holds(pool, id)                                 -> pool.leases[id]
    [] ~Holds(pool, id) /\ pool.released # << >>       -> Head(pool.released)
    [] ~Holds(pool, id) /\ pool.released = << >>
         /\ pool.hostCounter <= MaxHost                -> pool.hostCounter
    [] OTHER                                           -> NoIP

\* Faulty variant: the newest freed address is reused first.
AllocateNewest(pool, id) ==
  CASE Holds(pool, id)        -> pool
    [] pool.released # << >>  ->
         [pool EXCEPT !.leases = [@ EXCEPT ![id] = Last(pool.released)],
                      !.released = Front(@)]
    [] OTHER                  ->
         [pool EXCEPT !.leases = [@ EXCEPT ![id] = Granted(pool, id)],
                      !.hostCounter = IF @ > MaxHost THEN @ ELSE @ + 1]

\* Faulty variant: the counter is not advanced past a fresh address.
AllocateNoAdvance(pool, id) ==
  IF Holds(pool, id) THEN pool
  ELSE [pool EXCEPT !.leases = [@ EXCEPT ![id] = Granted(pool, id)],
                    !.released = IF @ = << >> THEN << >> ELSE Tail(@)]

\* Faulty variant: asking again gives the address back.
AllocateMoves(pool, id) ==
  IF Holds(pool, id) THEN AfterRelease(pool, id)
  ELSE [pool EXCEPT !.leases = [@ EXCEPT ![id] = Granted(pool, id)],
                    !.released = IF @ = << >> THEN << >> ELSE Tail(@),
                    !.hostCounter = IF Granted(pool, id) = @ THEN @ + 1 ELSE @]

AfterAllocate(pool, id) ==
  IF Holds(pool, id) THEN pool
  ELSE LET fresh == pool.released = << >> /\ pool.hostCounter <= MaxHost IN
       [hostCounter |-> pool.hostCounter + (IF fresh THEN 1 ELSE 0),
        leases |-> [pool.leases EXCEPT ![id] = Granted(pool, id)],
        released |-> IF pool.released = << >> THEN << >> ELSE Tail(pool.released)]

-----------------------------------------------------------------------------
(***************************************************************************)
(* What a pool guarantees between calls, whoever calls it.                 *)
(***************************************************************************)

\* No two peers hold the same address.
NoDoubleLeaseIn(pool) ==
  \A p, q \in Peers : Holds(pool, p) /\ pool.leases[p] = pool.leases[q] => p = q

\* An address on the free-list is leased to nobody and listed once.
FreeListSoundIn(pool) ==
  /\ \A i \in DOMAIN pool.released : pool.released[i] \notin Leased(pool)
  /\ \A i, j \in DOMAIN pool.released :
       pool.released[i] = pool.released[j] => i = j

\* Every address below the counter is leased or listed: none is lost, and
\* none at or above the counter is in use.
NothingLostIn(pool) ==
  Leased(pool) \cup ToSet(pool.released) = FirstHost .. (pool.hostCounter - 1)

PoolSound(pool) ==
  /\ pool \in Pool
  /\ NoDoubleLeaseIn(pool)
  /\ FreeListSoundIn(pool)
  /\ NothingLostIn(pool)
=============================================================================
