------------------------------ MODULE IpamPool ------------------------------
(***************************************************************************)
(* One pool driven by arbitrary calls, as a host's ReadLoop drives it with *)
(* the requests, refusals and departures of its peers.                     *)
(***************************************************************************)
EXTENDS Ipam

VARIABLES pool,   \* the Pool struct
          reply   \* the last call and what it returned

vars == << pool, reply >>

TypeOK ==
  /\ pool \in Pool
  /\ reply \in [op : {"none", "allocate", "release"}, id : Peers,
                ip : Addr \cup {NoIP}]

Init ==
  /\ pool = NewPool
  /\ reply \in [op : {"none"}, id : Peers, ip : {NoIP}]

Allocate(id) ==
  /\ pool' = AfterAllocate(pool, id)
  /\ reply' = [op |-> "allocate", id |-> id, ip |-> Granted(pool, id)]

ReleaseBySteamID(id) ==
  /\ pool' = AfterRelease(pool, id)
  /\ reply' = [op |-> "release", id |-> id, ip |-> pool.leases[id]]

Next == \E id \in Peers : Allocate(id) \/ ReleaseBySteamID(id)

Spec == Init /\ [][Next]_vars

-----------------------------------------------------------------------------
\* No two peers ever hold the same address, however requests, renewals,
\* refusals and repeated releases interleave (pool.go Allocate,
\* ReleaseBySteamID).
NoDoubleLease == NoDoubleLeaseIn(pool)

\* The pool's books balance: every address that was ever handed out is leased
\* to one peer or waits once on the free-list, so none is lost and none is
\* both leased and free (pool.go l.48-56, 69-70).
BooksBalance == FreeListSoundIn(pool) /\ NothingLostIn(pool)

\* A request is refused only when every address is leased: the answer 0 that
\* the host turns into a NACK means exhaustion and nothing else
\* (pool.go l.31-33).
RefusedOnlyWhenFull ==
  reply.op = "allocate" /\ reply.ip = NoIP => Leased(pool) = Addr

\* Freed addresses are reused oldest first: a later entry of the free-list
\* never leaves it before an earlier one (pool.go l.17).
OldestFirst ==
  [][\A i, j \in DOMAIN pool.released :
       i < j /\ pool.released[j] \notin ToSet(pool'.released)
         => pool.released[i] \notin ToSet(pool'.released)]_vars

\* The pool implements the lease service: its leases are the service's, and
\* the counter and the free-list are only how it finds a free address.
Service == INSTANCE LeaseService WITH lease <- pool.leases

ImplementsService == Service!Spec
=============================================================================
