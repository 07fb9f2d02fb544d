---------------------------- MODULE LeaseService ----------------------------
(***************************************************************************)
(* What an address pool promises, with no word of how it keeps its books:  *)
(* a peer that holds an address is told that address again; any other peer *)
(* is given some address nobody holds, and is refused only when there is   *)
(* none; a peer gives back its own address only.                           *)
(***************************************************************************)
EXTENDS Integers

CONSTANTS Peers, Addr, NoIP

VARIABLES lease,   \* lease[p] is the address p holds, or NoIP
          reply    \* the last call: who asked what, and the answer

svars == << lease, reply >>

Free == Addr \ {lease[p] : p \in Peers}

Init ==
  /\ lease = [p \in Peers |-> NoIP]
  /\ reply \in [op : {"none"}, id : Peers, ip : {NoIP}]

Answer(op, p, ip) == reply' = [op |-> op, id |-> p, ip |-> ip]

Renew(p) ==
  /\ lease[p] # NoIP
  /\ Answer("allocate", p, lease[p])
  /\ UNCHANGED lease

Grant(p) ==
  /\ lease[p] = NoIP
  /\ \E a \in Free : /\ lease' = [lease EXCEPT ![p] = a]
                     /\ Answer("allocate", p, a)

Refuse(p) ==
  /\ lease[p] = NoIP
  /\ Free = {}
  /\ Answer("allocate", p, NoIP)
  /\ UNCHANGED lease

GiveBack(p) ==
  /\ Answer("release", p, lease[p])
  /\ lease' = [lease EXCEPT ![p] = NoIP]

Next == \E p \in Peers : Renew(p) \/ Grant(p) \/ Refuse(p) \/ GiveBack(p)

Spec == Init /\ [][Next]_svars
=============================================================================
