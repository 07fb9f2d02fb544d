----------------------------- MODULE MCOverlay ------------------------------
(***************************************************************************)
(* A host h with two guests a and b that bootstrap from it.                *)
(***************************************************************************)
EXTENDS Overlay

CONSTANTS h, a, b

Three == {h, a, b}
Guests == {a, b}
OnlyHost == {h}
OnlyA == {a}
Nobody == {}
Sets == {"set"}
StarBootstrap == [n \in Three |-> IF n = h THEN NoPeer ELSE h]
NoJoins == [n \in Three |-> {}]
HostFriends == [n \in Three |-> IF n = h THEN {a, b} ELSE {}]
OnePort == {80}
Announce == [n \in Three |-> {Broadcast}]
Talks == [n \in Three |-> IF n = a THEN {3} ELSE {Broadcast, 2}]
=============================================================================
