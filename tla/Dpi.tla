-------------------------------- MODULE Dpi ---------------------------------
(***************************************************************************)
(* Packet inspection, internal/dpi/inspector.go, and the checks around it  *)
(* in internal/router/router.go, on packets as the code sees them: slices  *)
(* of bytes, possibly cut short.                                           *)
(*                                                                         *)
(* The reference is the other way around: a packet is built from the       *)
(* fields of its header, laid out as IPv4 lays them out, so that what the  *)
(* code reads at its offsets can be compared with what was put there.  The *)
(* state is one packet and the list of allowed ports its user edits.       *)
(***************************************************************************)
EXTENDS Integers, Sequences, FiniteSetsExt

CONSTANTS
  Packets,  \* the packets inspected: their header fields
  Lengths,  \* the numbers of bytes they may be cut to
  Ports     \* the ports the user may allow

VARIABLES packet, length, allowedPorts

dpiVars == << packet, length, allowedPorts >>

\* Byte i of a slice, from 0; and the slice from byte i on.
At(bytes, i) == bytes[i + 1]
From(bytes, i) == SubSeq(bytes, i + 1, Len(bytes))
Word(bytes, i) == At(bytes, i) * 256 + At(bytes, i + 1)

-----------------------------------------------------------------------------
\* Faulty variant: one bit too many in 172.16.0.0/12.
IsValidLanWide(bytes) ==
  /\ Len(bytes) >= 20 /\ At(bytes, 0) \div 16 = 4
  /\ \/ At(bytes, 16) = 10
     \/ At(bytes, 16) = 172 /\ At(bytes, 17) \in 16 .. 32
     \/ At(bytes, 16) = 192 /\ At(bytes, 17) = 168
     \/ \A i \in 16 .. 19 : At(bytes, i) = 255

\* IsValidLan: an IPv4 packet to a private network or to everyone.
IsValidLan(bytes) ==
  /\ Len(bytes) >= 20 /\ At(bytes, 0) \div 16 = 4
  /\ \/ At(bytes, 16) = 10
     \/ At(bytes, 16) = 172 /\ At(bytes, 17) \in 16 .. 31
     \/ At(bytes, 16) = 192 /\ At(bytes, 17) = 168
     \/ \A i \in 16 .. 19 : At(bytes, i) = 255

HeaderLength(bytes) == (At(bytes, 0) % 16) * 4

\* Faulty variant: the header is taken to have no options.
IsAllowedPortNoOptions(bytes, ports) ==
  /\ Len(bytes) >= 20 /\ At(bytes, 0) \div 16 = 4
  /\ Word(bytes, 6) % 8192 = 0
  /\ \/ At(bytes, 9) = 1
     \/ /\ At(bytes, 9) \in {6, 17} /\ Len(bytes) >= 24
        /\ Word(bytes, 20) \in ports \/ Word(bytes, 22) \in ports

\* IsAllowedPort: ICMP always; TCP and UDP if either port is allowed; nothing
\* else, and no later fragment, for it has no ports.
IsAllowedPort(bytes, ports) ==
  /\ Len(bytes) >= 20 /\ At(bytes, 0) \div 16 = 4
  /\ LET ports4 == HeaderLength(bytes) IN
       /\ ports4 >= 20 /\ Len(bytes) >= ports4
       /\ Word(bytes, 6) % 8192 = 0
       /\ \/ At(bytes, 9) = 1
          \/ /\ At(bytes, 9) \in {6, 17} /\ Len(bytes) >= ports4 + 4
             /\ \/ Word(bytes, ports4) \in ports
                \/ Word(bytes, ports4 + 2) \in ports

\* Faulty variant: any first byte that is not 0x45 is taken for a device header.
OffsetUnlessPlain(bytes) == IF Len(bytes) > 4 /\ At(bytes, 0) # 69 THEN 4 ELSE 0

\* HandleIngress skips the header some TUN devices put before a packet.
Offset(bytes) == IF Len(bytes) > 4 /\ At(bytes, 0) \in {0, 2} THEN 4 ELSE 0

\* What HandleIngress and StartEgress let through, with the firewall on.
IngressPasses(bytes, ports) ==
  LET inner == From(bytes, Offset(bytes)) IN
  /\ Len(bytes) >= 20 + Offset(bytes)
  /\ IsValidLan(inner) /\ IsAllowedPort(inner, ports)

EgressPasses(bytes, ports) ==
  Len(bytes) >= 20 /\ IsValidLan(bytes) /\ IsAllowedPort(bytes, ports)

-----------------------------------------------------------------------------
(***************************************************************************)
(* The reference.  A packet has the fields of an IPv4 header; src and dst  *)
(* have four bytes; filler is the value of every byte of no interest.      *)
(***************************************************************************)
ICMP == 1
TCP == 6
UDP == 17

Byte == 0 .. 255
Address == [1 .. 4 -> Byte]
PortNumber == {n \in Nat : n < 65536}
FragmentOffset == {n \in Nat : n < 8192}
Header == [version : 0 .. 15, ihl : 0 .. 15, flags : 0 .. 7, offset : FragmentOffset,
           proto : Byte, src : Address, dst : Address,
           sport : PortNumber, dport : PortNumber, filler : Byte]

ASSUME DpiAssumption == Packets \subseteq Header /\ Lengths \subseteq Nat

WholeLength(p) == 4 * p.ihl + 8

\* Byte i of p: the fixed part of the header, then options, ports and the
\* beginning of the payload.
Fixed(p, i) ==
  CASE i = 0          -> 16 * p.version + p.ihl
    [] i = 6          -> 32 * p.flags + p.offset \div 256
    [] i = 7          -> p.offset % 256
    [] i = 9          -> p.proto
    [] i \in 12 .. 15 -> p.src[i - 11]
    [] i \in 16 .. 19 -> p.dst[i - 15]
    [] OTHER          -> p.filler

Beyond(p, i) ==
  CASE i = 4 * p.ihl     -> p.sport \div 256
    [] i = 4 * p.ihl + 1 -> p.sport % 256
    [] i = 4 * p.ihl + 2 -> p.dport \div 256
    [] i = 4 * p.ihl + 3 -> p.dport % 256
    [] OTHER             -> p.filler

Layout(p) ==
  [i \in 1 .. WholeLength(p) |-> IF i <= 20 THEN Fixed(p, i - 1) ELSE Beyond(p, i - 1)]

Bytes(p, n) == SubSeq(Layout(p), 1, n)

\* The header is there, whole, and says what an IPv4 header says.
WellFormed(p, n) == p.version = 4 /\ p.ihl >= 5 /\ n >= 4 * p.ihl
HasPorts(p, n) == p.proto \in {TCP, UDP} /\ p.offset = 0 /\ n >= 4 * p.ihl + 4

PrivateOrBroadcast(ip) ==
  \/ ip[1] = 10
  \/ ip[1] = 172 /\ ip[2] \div 16 = 1
  \/ ip[1] = 192 /\ ip[2] = 168
  \/ ip = << 255, 255, 255, 255 >>

-----------------------------------------------------------------------------
DpiInit ==
  /\ packet \in Packets /\ length \in {n \in Lengths : n <= WholeLength(packet)}
  /\ allowedPorts = {}

AddPort(port) == allowedPorts' = allowedPorts \cup {port} /\ UNCHANGED << packet, length >>
RemovePort(port) == allowedPorts' = allowedPorts \ {port} /\ UNCHANGED << packet, length >>

DpiNext == \E port \in Ports : AddPort(port) \/ RemovePort(port)

DpiSpec == DpiInit /\ [][DpiNext]_dpiVars

-----------------------------------------------------------------------------
\* The firewall passes a packet if and only if it is a well-formed first
\* fragment that is ICMP or whose own ports, wherever options have moved them,
\* include an allowed one; bytes that are not ports never decide (inspector.go
\* l.79-120).  README.md l.64 promises more: see InfrastructurePasses.
FirewallReadsThePorts ==
  IsAllowedPort(Bytes(packet, length), allowedPorts) <=>
    /\ WellFormed(packet, length) /\ packet.offset = 0
    /\ \/ packet.proto = ICMP
       \/ /\ HasPorts(packet, length)
          /\ {packet.sport, packet.dport} \cap allowedPorts # {}

\* A packet counts as LAN traffic if and only if its destination is private or
\* the broadcast address, at every boundary of the ranges, wherever it comes
\* from (inspector.go l.48-57).  README.md l.38 and l.48 promise more: see
\* LanSourcesOnly.
LanByDestination ==
  IsValidLan(Bytes(packet, length)) <=>
    packet.version = 4 /\ length >= 20 /\ PrivateOrBroadcast(packet.dst)

\* A packet one node sends is not dropped by the inspection of a node with the
\* same ports, and is not cut on the way in: no IPv4 packet looks like one with
\* a device header (router.go l.41-59, 80-89).
SentIsAccepted ==
  EgressPasses(Bytes(packet, length), allowedPorts) =>
    /\ Offset(Bytes(packet, length)) = 0
    /\ IngressPasses(Bytes(packet, length), allowedPorts)

-----------------------------------------------------------------------------
(***************************************************************************)
(* What README.md says of the inspection and inspector.go does not do.     *)
(***************************************************************************)

\* "ARP, ICMP, and other non-TCP/UDP traffic always allowed" (README.md l.64):
\* the firewall lets every whole IPv4 packet of another protocol through.
InfrastructurePasses ==
  WellFormed(packet, length) /\ packet.offset = 0 /\ packet.proto \notin {TCP, UDP}
    => IsAllowedPort(Bytes(packet, length), allowedPorts)

\* "Validates IPv4 source/destination is RFC1918" (README.md l.48): what counts
\* as LAN traffic comes from a private address as well.
LanSourcesOnly ==
  IsValidLan(Bytes(packet, length)) => PrivateOrBroadcast(packet.src)
=============================================================================
