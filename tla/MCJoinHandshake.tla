--------------------------- MODULE MCJoinHandshake ---------------------------
(***************************************************************************)
(* A host h and a guest a that asks it for an address, and a third node b  *)
(* that asks a.  With no --peer a node assigns itself an address first.    *)
(***************************************************************************)
EXTENDS JoinHandshake

CONSTANTS h, a, b

Pair == {h, a}
Three == {h, a, b}
OnlyHost == {h}
Nobody == {}
NoJoins == [n \in Peers |-> {}]
GuestJoins == [n \in Peers |-> IF n = a THEN {h} ELSE {}]
HostJoins == [n \in Peers |-> IF n = h THEN {a} ELSE {}]
NoBootstrap == [n \in Peers |-> NoPeer]
GuestBootstraps == [n \in Peers |-> IF n = a THEN h ELSE NoPeer]
ChainBootstraps == [n \in Peers |-> CASE n = a -> h [] n = b -> a [] OTHER -> NoPeer]
NoFriends == [n \in Peers |-> {}]
AllFriends == [n \in Peers |-> Peers]
Sets == {"set"}
SetsOrHalf == {"set", "half"}
=============================================================================
