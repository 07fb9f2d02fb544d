------------------------------ MODULE Overlay -------------------------------
(***************************************************************************)
(* The data plane of internal/router on top of the handshake: every node   *)
(* carries the packets of its own operating system to the peers it knows   *)
(* (StartEgress) and writes the packets of its peers to its interface      *)
(* (HandleIngress), learning on the way which peer speaks for which        *)
(* address.  The ReadLoop that handles control messages handles data too,  *)
(* and a sender of data becomes a known peer.                              *)
(*                                                                         *)
(* A packet is its source, destination and port.  What inspection rejects  *)
(* for other reasons is dropped before it changes anything (module Dpi).   *)
(* Data is unreliable: it is lost or overtaken, also by control messages.  *)
(***************************************************************************)
EXTENDS JoinHandshake

CONSTANTS
  Broadcast,     \* the destination 255.255.255.255
  Ports,         \* the ports packets may carry
  MayConfigure,  \* the nodes whose user changes the firewall
  Reaches,       \* Reaches[n]: the destinations n's programs send to
  MaxData        \* bound: data packets on their way

ASSUME OverlayAssumption ==
  /\ Broadcast \notin Address
  /\ MayConfigure \subseteq Peers
  /\ Reaches \in [Peers -> SUBSET (Address \cup {Broadcast})]
  /\ MaxData \in Nat

VARIABLES
  table,         \* table[n][ip]: the peer bound to ip, or NoPeer
  firewall,      \* firewall[n]: firewallEnabled
  allowedPorts,  \* allowedPorts[n]
  data,          \* data packets on their way
  heard          \* history: heard[n][ip]: peers whose packets from ip n wrote

routerVars == << table, firewall, allowedPorts, data, heard >>
overlayVars == << vars, routerVars >>

Destination == Address \cup {Broadcast}
Packet == [from : Peers, to : Peers, src : Address, dst : Destination, port : Ports]

EmptyTable == [ip \in Address |-> NoPeer]
Silence == [ip \in Address |-> {}]

RouterTypes ==
  /\ table \in [Peers -> [Address -> Peers \cup {NoPeer}]]
  /\ firewall \in [Peers -> BOOLEAN]
  /\ allowedPorts \in [Peers -> SUBSET Ports]
  /\ data \subseteq Packet
  /\ heard \in [Peers -> [Address -> SUBSET Peers]]

OverlayTypeOK == TypeOK /\ RouterTypes

OverlayInit ==
  /\ Init
  /\ table = [n \in Peers |-> EmptyTable]
  /\ firewall = [n \in Peers |-> FALSE]
  /\ allowedPorts = [n \in Peers |-> {}]
  /\ data = {}
  /\ heard = [n \in Peers |-> Silence]

-----------------------------------------------------------------------------
\* firewallEnabled /\ ~IsAllowedPort, seen by node n.
Blocked(n, port) == firewall[n] /\ port \notin allowedPorts[n]

\* The peers a packet for dst goes to: the one bound to it, or all that n knows.
Receivers(n, dst) ==
  IF dst # Broadcast /\ table[n][dst] # NoPeer THEN {table[n][dst]} ELSE peers[n]

\* StartEgress: a program on n sends from the address of the interface.
Egress(n, dst, port) ==
  /\ Running(n) /\ devIP[n] # NoIP /\ dst # devIP[n] /\ dst \in Reaches[n]
  /\ ~Blocked(n, port)
  /\ data' = data \cup {[from |-> n, to |-> m, src |-> devIP[n], dst |-> dst, port |-> port] :
                          m \in Receivers(n, dst)}
  /\ Cardinality(data') <= MaxData
  /\ session' = [session EXCEPT ![n] = @ \cup Receivers(n, dst)]
  /\ UNCHANGED << life, clientVars, timerVars, net, asked, resultVars, historyVars,
                  table, firewall, allowedPorts, heard >>

\* The ReadLoop of n takes a data packet, and counts its sender as a peer
\* whatever the router makes of it.
TakeData(n, p) ==
  /\ p \in data /\ p.to = n
  /\ Running(n) /\ loop[n] = Idle /\ p.from \in session[n]
  /\ data' = data \ {p}
  /\ peers' = [peers EXCEPT ![n] = @ \cup {p.from}]
  /\ UNCHANGED << life, pool, pending, localIP, devIP, loop, timerVars, steamVars,
                  resultVars, historyVars, firewall, allowedPorts >>

Bind(n, ip, m) == table' = [table EXCEPT ![n] = [@ EXCEPT ![ip] = m]]
Write(n, p) ==
  LET ips == [heard[n] EXCEPT ![p.src] = @ \cup {p.from}] IN
  heard' = [heard EXCEPT ![n] = ips]

\* Faulty variants: the last speaker takes the address over; the destination
\* is bound instead of the source; the address is bound before the firewall.
IngressTakesOver(n, p) ==
  /\ TakeData(n, p)
  /\ IF Blocked(n, p.port) THEN UNCHANGED << table, heard >>
     ELSE Bind(n, p.src, p.from) /\ Write(n, p)

IngressBindsDestination(n, p) ==
  /\ TakeData(n, p)
  /\ IF Blocked(n, p.port) \/ table[n][p.src] \notin {NoPeer, p.from}
     THEN UNCHANGED << table, heard >>
     ELSE /\ IF p.dst = Broadcast THEN UNCHANGED table ELSE Bind(n, p.dst, p.from)
          /\ Write(n, p)

IngressBindsFirst(n, p) ==
  /\ TakeData(n, p)
  /\ IF table[n][p.src] \notin {NoPeer, p.from} THEN UNCHANGED << table, heard >>
     ELSE /\ Bind(n, p.src, p.from)
          /\ IF Blocked(n, p.port) THEN UNCHANGED heard ELSE Write(n, p)

\* HandleIngress: a packet the firewall passes, from an address nobody else is
\* bound to, binds the address to its sender and is written to the interface.
Ingress(n, p) ==
  /\ TakeData(n, p)
  /\ IF Blocked(n, p.port) \/ table[n][p.src] \notin {NoPeer, p.from}
     THEN UNCHANGED << table, heard >>
     ELSE Bind(n, p.src, p.from) /\ Write(n, p)

\* Data from a peer whose session is not accepted raises the request, too.
AskForData(n, p) ==
  /\ p \in data /\ p.to = n
  /\ Running(n) /\ p.from \notin session[n] \cup asked[n]
  /\ asked' = [asked EXCEPT ![n] = @ \cup {p.from}]
  /\ UNCHANGED << life, clientVars, timerVars, net, session, resultVars, historyVars,
                  routerVars >>

\* Data may be lost anywhere.
Lose(p) ==
  /\ p \in data
  /\ data' = data \ {p}
  /\ UNCHANGED << vars, table, firewall, allowedPorts, heard >>

\* SetFirewall, AddPort, RemovePort.
Configure(n) ==
  /\ n \in MayConfigure /\ life[n] # "off"
  /\ \/ /\ \E on \in BOOLEAN : firewall' = [firewall EXCEPT ![n] = on]
        /\ UNCHANGED allowedPorts
     \/ /\ \E port \in Ports : \/ allowedPorts' = [allowedPorts EXCEPT ![n] = @ \cup {port}]
                               \/ allowedPorts' = [allowedPorts EXCEPT ![n] = @ \ {port}]
        /\ UNCHANGED firewall
  /\ UNCHANGED << vars, table, data, heard >>

\* A step of the handshake; a new life has a new router.
ControlStep ==
  LET Fresh(f, new) == [n \in Peers |-> IF restarts'[n] # restarts[n] THEN new ELSE f[n]] IN
  /\ Next
  /\ table' = Fresh(table, EmptyTable)
  /\ firewall' = Fresh(firewall, FALSE)
  /\ allowedPorts' = Fresh(allowedPorts, {})
  /\ heard' = Fresh(heard, Silence)
  /\ UNCHANGED data

DataStep ==
  \/ \E n \in Peers : \/ Configure(n)
                      \/ \E dst \in Destination, port \in Ports : Egress(n, dst, port)
                      \/ \E p \in data : Ingress(n, p) \/ AskForData(n, p)
  \/ \E p \in data : Lose(p)

OverlayNext == ControlStep \/ DataStep

OverlaySpec == OverlayInit /\ [][OverlayNext]_overlayVars

-----------------------------------------------------------------------------
\* On one node, everything ever written from one address came from one peer,
\* however leases move between peers (router.go l.60-66, table.go l.26-34;
\* README.md l.72).
OneVoicePerAddress ==
  \A n \in Peers, ip \in Address : \A p, q \in heard[n][ip] : p = q

\* An address is bound only to a peer that got a packet through the firewall
\* from that address (router.go l.57-66).
BoundByDelivery ==
  \A n \in Peers, ip \in Address : table[n][ip] # NoPeer => table[n][ip] \in heard[n][ip]

\* m has lived on, nobody has refused or left it, and no other node has leased
\* an address since it started.
SteadyHost(m) ==
  /\ restarts[m] = 0
  /\ \A n \in Peers : m \notin gaveUp[n] /\ (n # m => pool[n] = NewPool)

\* Where only a steady host is asked for addresses, every node binds a leased
\* address to its holder or to nobody: what is sent to the address reaches the
\* holder, and no node takes the holder for an impostor (router.go l.62-65,
\* 100-109).  Where two are asked, an address that one granted before it
\* crashed is still spoken for when the other grants it.
RoutesLeadToHolder ==
  \A h, n, m \in Peers :
    SteadyHost(h) /\ Holds(pool[h], m) => table[n][pool[h].leases[m]] \in {NoPeer, m}

-----------------------------------------------------------------------------
(***************************************************************************)
(* What the repository says of the table and its code does not do.         *)
(***************************************************************************)

\* "refused routing-table poisoning attempt" (router.go l.63): what a host
\* refuses is never from the peer it leased the address to.
LeaseholderIsHeard ==
  \A h, m \in Peers :
    Holds(pool[h], m) => table[h][pool[h].leases[m]] \in {NoPeer, m}
=============================================================================
