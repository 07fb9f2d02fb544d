----------------------------- MODULE DpiProofs ------------------------------
(***************************************************************************)
(* Theorems of Dpi, for every packet and every place it may be cut: what   *)
(* the code reads at its offsets is what the fields of the packet say.     *)
(***************************************************************************)
EXTENDS Dpi, SequenceTheorems, TLAPS

-----------------------------------------------------------------------------
(***************************************************************************)
(* The arithmetic of the header: half bytes, words, and the flags that     *)
(* share a word with the fragment offset.                                  *)
(***************************************************************************)
LEMMA HalfBytes ==
  ASSUME NEW a \in 0 .. 15, NEW b \in 0 .. 15
  PROVE  (16 * a + b) \div 16 = a /\ (16 * a + b) % 16 = b
  OBVIOUS

LEMMA Words ==
  ASSUME NEW w \in Nat
  PROVE  (w \div 256) * 256 + (w % 256) = w
  OBVIOUS

LEMMA FlagsAndOffset ==
  ASSUME NEW f \in 0 .. 7, NEW o \in FragmentOffset
  PROVE  ((32 * f + (o \div 256)) * 256 + (o % 256)) % 8192 = o
<1>1. (32 * f + (o \div 256)) * 256 + (o % 256) = 8192 * f + o
  BY Words DEF FragmentOffset
<1>2. (8192 * f + o) % 8192 = o
  BY DEF FragmentOffset
<1>3. QED
  BY <1>1, <1>2

-----------------------------------------------------------------------------
(***************************************************************************)
(* The bytes of a packet, and what the code makes of them.                 *)
(***************************************************************************)

LEMMA PortNumbers ==
  ASSUME NEW x \in PortNumber
  PROVE  x \in Nat
  BY DEF PortNumber

\* The fields of a header have their widths.
LEMMA Fields ==
  ASSUME NEW p \in Header
  PROVE  /\ p.version \in 0 .. 15 /\ p.ihl \in 0 .. 15
         /\ p.flags \in 0 .. 7 /\ p.offset \in FragmentOffset
         /\ p.proto \in 0 .. 255 /\ p.dst \in [1 .. 4 -> 0 .. 255]
         /\ p.sport \in Nat /\ p.dport \in Nat
         /\ WholeLength(p) = 4 * p.ihl + 8 /\ WholeLength(p) \in Nat
<1>1. /\ p.version \in 0 .. 15 /\ p.ihl \in 0 .. 15
      /\ p.flags \in 0 .. 7 /\ p.offset \in FragmentOffset
      /\ p.proto \in Byte /\ p.dst \in Address
      /\ p.sport \in PortNumber /\ p.dport \in PortNumber
  BY DEF Header
<1>2. p.proto \in 0 .. 255 /\ p.dst \in [1 .. 4 -> 0 .. 255]
  BY <1>1 DEF Byte, Address
<1>3. p.sport \in Nat /\ p.dport \in Nat
  BY <1>1, PortNumbers
<1>4. WholeLength(p) = 4 * p.ihl + 8 /\ WholeLength(p) \in Nat
  BY <1>1 DEF WholeLength
<1>5. QED
  BY <1>1, <1>2, <1>3, <1>4

\* A cut packet has the first bytes of the whole one.
LEMMA BytesOf ==
  ASSUME NEW p \in Header, NEW n \in 0 .. WholeLength(p)
  PROVE  /\ Len(Bytes(p, n)) = n
         /\ \A i \in 0 .. n - 1 :
              At(Bytes(p, n), i) = IF i < 20 THEN Fixed(p, i) ELSE Beyond(p, i)
<1>1. WholeLength(p) \in Nat /\ n \in Nat
  BY Fields
<1>2. ASSUME NEW i \in 1 .. WholeLength(p)
      PROVE  Layout(p)[i] = IF i <= 20 THEN Fixed(p, i - 1) ELSE Beyond(p, i - 1)
  BY DEF Layout
<1>3. \A i \in 1 .. n : Layout(p)[i] \in {Layout(p)[j] : j \in 1 .. n}
  OBVIOUS
<1>4. /\ Len(Bytes(p, n)) = IF 1 <= n THEN n - 1 + 1 ELSE 0
      /\ \A i \in 1 .. n - 1 + 1 : Bytes(p, n)[i] = Layout(p)[1 + i - 1]
  BY <1>1, <1>3, SubSeqProperties DEF Bytes
<1>5. Len(Bytes(p, n)) = n
  BY <1>1, <1>4
<1>6. ASSUME NEW i \in 0 .. n - 1
      PROVE  At(Bytes(p, n), i) = IF i < 20 THEN Fixed(p, i) ELSE Beyond(p, i)
  <2>1. i + 1 \in 1 .. n - 1 + 1 /\ i + 1 \in 1 .. WholeLength(p) /\ 1 + (i + 1) - 1 = i + 1
    BY <1>1
  <2>2. Bytes(p, n)[i + 1] = Layout(p)[i + 1]
    BY <1>4, <2>1
  <2>3. Layout(p)[i + 1] = IF i + 1 <= 20 THEN Fixed(p, i + 1 - 1) ELSE Beyond(p, i + 1 - 1)
    BY <1>2, <2>1
  <2>4. i + 1 - 1 = i /\ (i + 1 <= 20 <=> i < 20)
    BY <1>1
  <2>5. QED
    BY <2>2, <2>3, <2>4 DEF At
<1>7. QED
  BY <1>5, <1>6

\* The fixed part of the header, if it is there.
LEMMA HeaderOf ==
  ASSUME NEW p \in Header, NEW n \in 0 .. WholeLength(p), n >= 20
  PROVE  /\ At(Bytes(p, n), 0) = 16 * p.version + p.ihl
         /\ At(Bytes(p, n), 0) \div 16 = p.version
         /\ HeaderLength(Bytes(p, n)) = 4 * p.ihl
         /\ Word(Bytes(p, n), 6) % 8192 = p.offset
         /\ At(Bytes(p, n), 9) = p.proto
         /\ \A i \in 16 .. 19 : At(Bytes(p, n), i) = p.dst[i - 15]
<1>1. \A i \in 0 .. 19 : At(Bytes(p, n), i) = Fixed(p, i)
  <2>1. n \in Nat
    BY Fields
  <2>2. ASSUME NEW i \in 0 .. 19 PROVE i \in 0 .. n - 1 /\ i < 20
    BY <2>1
  <2>3. QED
    BY <2>2, BytesOf
<1>2. At(Bytes(p, n), 0) = 16 * p.version + p.ihl
  BY <1>1 DEF Fixed
<1>3. /\ At(Bytes(p, n), 6) = 32 * p.flags + p.offset \div 256
      /\ At(Bytes(p, n), 6 + 1) = p.offset % 256
  BY <1>1 DEF Fixed
<1>4. At(Bytes(p, n), 9) = p.proto
  BY <1>1 DEF Fixed
<1>5. ASSUME NEW i \in 16 .. 19 PROVE At(Bytes(p, n), i) = p.dst[i - 15]
  BY <1>1 DEF Fixed
<1>6. /\ p.version \in 0 .. 15 /\ p.ihl \in 0 .. 15
      /\ p.flags \in 0 .. 7 /\ p.offset \in FragmentOffset
  BY Fields
<1>7. /\ At(Bytes(p, n), 0) \div 16 = p.version
      /\ HeaderLength(Bytes(p, n)) = 4 * p.ihl
  BY <1>2, <1>6, HalfBytes DEF HeaderLength
<1>8. Word(Bytes(p, n), 6) % 8192 = p.offset
  <2>1. Word(Bytes(p, n), 6) = (32 * p.flags + (p.offset \div 256)) * 256 + (p.offset % 256)
    BY <1>3 DEF Word
  <2>2. QED
    BY <1>6, <2>1, FlagsAndOffset
<1>9. QED
  BY <1>2, <1>4, <1>5, <1>7, <1>8

\* The ports behind the header and its options, if they are there.
LEMMA PortsOf ==
  ASSUME NEW p \in Header, NEW n \in 0 .. WholeLength(p), p.ihl >= 5, n >= 4 * p.ihl + 4
  PROVE  /\ Word(Bytes(p, n), 4 * p.ihl) = p.sport
         /\ Word(Bytes(p, n), 4 * p.ihl + 2) = p.dport
<1>1. /\ p.ihl \in Nat /\ n \in Nat /\ p.sport \in Nat /\ p.dport \in Nat
  BY Fields
<1>2. ASSUME NEW k \in 0 .. 3
      PROVE  At(Bytes(p, n), 4 * p.ihl + k) = Beyond(p, 4 * p.ihl + k)
  <2>1. 4 * p.ihl + k \in 0 .. n - 1 /\ ~(4 * p.ihl + k < 20)
    BY <1>1
  <2>2. QED
    BY <2>1, BytesOf
<1>3. /\ Beyond(p, 4 * p.ihl) = p.sport \div 256
      /\ Beyond(p, 4 * p.ihl + 1) = p.sport % 256
      /\ Beyond(p, 4 * p.ihl + 2) = p.dport \div 256
      /\ Beyond(p, 4 * p.ihl + 3) = p.dport % 256
  BY <1>1 DEF Beyond
<1>4. /\ At(Bytes(p, n), 4 * p.ihl) = p.sport \div 256
      /\ At(Bytes(p, n), 4 * p.ihl + 1) = p.sport % 256
      /\ At(Bytes(p, n), 4 * p.ihl + 2) = p.dport \div 256
      /\ At(Bytes(p, n), 4 * p.ihl + 2 + 1) = p.dport % 256
  <2>1. 4 * p.ihl + 0 = 4 * p.ihl /\ 4 * p.ihl + 2 + 1 = 4 * p.ihl + 3
    BY <1>1
  <2>2. QED
    BY <1>2, <1>3, <2>1
<1>5. QED
  BY <1>1, <1>4, Words DEF Word

-----------------------------------------------------------------------------
(***************************************************************************)
(* The three decisions, for one packet and one list of ports.              *)
(***************************************************************************)

\* What the firewall decides on the bytes is what the fields say.
LEMMA FirewallDecides ==
  ASSUME NEW p \in Header, NEW n \in 0 .. WholeLength(p), NEW ports
  PROVE  IsAllowedPort(Bytes(p, n), ports) <=>
           /\ WellFormed(p, n) /\ p.offset = 0
           /\ p.proto = ICMP \/ (HasPorts(p, n) /\ {p.sport, p.dport} \cap ports # {})
<1>1. n \in Nat /\ p.ihl \in 0 .. 15 /\ p.proto \in 0 .. 255
  BY Fields
<1>2. Len(Bytes(p, n)) = n
  BY BytesOf
<1>3. CASE n < 20
  <2>1. ~IsAllowedPort(Bytes(p, n), ports)
    BY <1>1, <1>2, <1>3 DEF IsAllowedPort
  <2>2. ~WellFormed(p, n)
    BY <1>1, <1>3 DEF WellFormed
  <2>3. QED
    BY <2>1, <2>2
<1>4. CASE n >= 20
  <2>. DEFINE First == Word(Bytes(p, n), 6) % 8192 = 0
              Source == Word(Bytes(p, n), 4 * p.ihl) \in ports
              Target == Word(Bytes(p, n), 4 * p.ihl + 2) \in ports
  <2>1. /\ At(Bytes(p, n), 0) \div 16 = p.version
        /\ HeaderLength(Bytes(p, n)) = 4 * p.ihl
        /\ First <=> p.offset = 0
        /\ At(Bytes(p, n), 9) = p.proto
    BY <1>4, HeaderOf
  <2>2. p.ihl >= 5 /\ n >= 4 * p.ihl + 4 =>
          (Source \/ Target <=> {p.sport, p.dport} \cap ports # {})
    BY PortsOf
  <2>3. IsAllowedPort(Bytes(p, n), ports) <=>
          /\ p.version = 4 /\ 4 * p.ihl >= 20 /\ n >= 4 * p.ihl /\ First
          /\ p.proto = 1 \/ (p.proto \in {6, 17} /\ n >= 4 * p.ihl + 4 /\ (Source \/ Target))
    BY <1>2, <1>4, <2>1 DEF IsAllowedPort
  <2>. HIDE DEF First, Source, Target
  <2>4. QED
    BY <1>1, <2>1, <2>2, <2>3 DEF WellFormed, HasPorts, ICMP, TCP, UDP
<1>5. QED
  BY <1>1, <1>3, <1>4

\* What counts as LAN traffic on the bytes is what the destination says.
LEMMA LanDecides ==
  ASSUME NEW p \in Header, NEW n \in 0 .. WholeLength(p)
  PROVE  IsValidLan(Bytes(p, n)) <=>
           p.version = 4 /\ n >= 20 /\ PrivateOrBroadcast(p.dst)
<1>1. n \in Nat /\ p.dst \in [1 .. 4 -> 0 .. 255]
  BY Fields
<1>2. Len(Bytes(p, n)) = n
  BY BytesOf
<1>3. CASE n < 20
  BY <1>1, <1>2, <1>3 DEF IsValidLan
<1>4. CASE n >= 20
  <2>1. /\ At(Bytes(p, n), 0) \div 16 = p.version
        /\ \A i \in 16 .. 19 : At(Bytes(p, n), i) = p.dst[i - 15]
    BY <1>4, HeaderOf
  <2>2. /\ At(Bytes(p, n), 16) = p.dst[1] /\ At(Bytes(p, n), 17) = p.dst[2]
        /\ At(Bytes(p, n), 18) = p.dst[3] /\ At(Bytes(p, n), 19) = p.dst[4]
    BY <2>1
  <2>3. \A x \in 0 .. 255 : x \div 16 = 1 <=> x \in 16 .. 31
    OBVIOUS
  <2>4. p.dst[2] \div 16 = 1 <=> p.dst[2] \in 16 .. 31
    BY <1>1, <2>3
  <2>5. (\A i \in 16 .. 19 : At(Bytes(p, n), i) = 255) <=> p.dst = << 255, 255, 255, 255 >>
    <3>1. (\A i \in 16 .. 19 : At(Bytes(p, n), i) = 255) <=> \A k \in 1 .. 4 : p.dst[k] = 255
      BY <2>2
    <3>2. (\A k \in 1 .. 4 : p.dst[k] = 255) <=> p.dst = << 255, 255, 255, 255 >>
      BY <1>1
    <3>3. QED
      BY <3>1, <3>2
  <2>. DEFINE Everyone == \A i \in 16 .. 19 : At(Bytes(p, n), i) = 255
  <2>. HIDE DEF Everyone
  <2>6. IsValidLan(Bytes(p, n)) <=>
          /\ p.version = 4
          /\ \/ p.dst[1] = 10
             \/ p.dst[1] = 172 /\ p.dst[2] \in 16 .. 31
             \/ p.dst[1] = 192 /\ p.dst[2] = 168
             \/ Everyone
    <3>1. Len(Bytes(p, n)) >= 20
      BY <1>2, <1>4
    <3>2. IsValidLan(Bytes(p, n)) <=>
            /\ Len(Bytes(p, n)) >= 20 /\ At(Bytes(p, n), 0) \div 16 = 4
            /\ \/ At(Bytes(p, n), 16) = 10
               \/ At(Bytes(p, n), 16) = 172 /\ At(Bytes(p, n), 17) \in 16 .. 31
               \/ At(Bytes(p, n), 16) = 192 /\ At(Bytes(p, n), 17) = 168
               \/ Everyone
      BY Zenon DEF IsValidLan, Everyone
    <3>3. At(Bytes(p, n), 0) \div 16 = p.version
      BY <2>1
    <3>4. QED
      BY <2>2, <3>1, <3>2, <3>3, SMTT(30)
  <2>7. PrivateOrBroadcast(p.dst) <=>
          \/ p.dst[1] = 10
          \/ p.dst[1] = 172 /\ p.dst[2] \in 16 .. 31
          \/ p.dst[1] = 192 /\ p.dst[2] = 168
          \/ Everyone
    BY <2>4, <2>5, Zenon DEF PrivateOrBroadcast, Everyone
  <2>8. QED
    BY <1>4, <2>6, <2>7
<1>5. QED
  BY <1>1, <1>3, <1>4

\* What passes on the way out passes on the way in, uncut.
LEMMA SentPasses ==
  ASSUME NEW p \in Header, NEW n \in 0 .. WholeLength(p), NEW ports,
         EgressPasses(Bytes(p, n), ports)
  PROVE  Offset(Bytes(p, n)) = 0 /\ IngressPasses(Bytes(p, n), ports)
<1>1. n \in Nat /\ Len(Bytes(p, n)) = n /\ n >= 20
  BY Fields, BytesOf DEF EgressPasses
<1>2. At(Bytes(p, n), 0) = 16 * p.version + p.ihl /\ p.ihl \in 0 .. 15
  BY <1>1, HeaderOf, Fields
<1>3. p.version = 4
  BY LanDecides DEF EgressPasses
<1>4. Offset(Bytes(p, n)) = 0
  <2>1. At(Bytes(p, n), 0) \notin {0, 2}
    BY <1>2, <1>3
  <2>2. QED
    BY <2>1 DEF Offset
<1>5. From(Bytes(p, n), 0) = Bytes(p, n)
  <2>1. \A i \in 1 .. n : Layout(p)[i] \in {Layout(p)[j] : j \in 1 .. n}
    OBVIOUS
  <2>2. Bytes(p, n) \in Seq({Layout(p)[j] : j \in 1 .. n})
    BY <1>1, <2>1, SubSeqProperties DEF Bytes
  <2>3. SubSeq(Bytes(p, n), 1, Len(Bytes(p, n))) = Bytes(p, n)
    BY <2>2, SubSeqFull
  <2>4. QED
    BY <2>3 DEF From
<1>6. QED
  BY <1>1, <1>4, <1>5 DEF EgressPasses, IngressPasses

-----------------------------------------------------------------------------
\* The packet stays the packet, wherever it is cut.
PacketInv == packet \in Header /\ length \in 0 .. WholeLength(packet)

LEMMA PacketInvariance == DpiSpec => []PacketInv
<1>1. DpiInit => PacketInv
  <2> SUFFICES ASSUME DpiInit PROVE PacketInv
    OBVIOUS
  <2>1. packet \in Header /\ length \in Nat /\ length <= WholeLength(packet)
    BY DpiAssumption DEF DpiInit
  <2>2. WholeLength(packet) \in Nat
    BY <2>1, Fields
  <2>3. QED
    BY <2>1, <2>2 DEF PacketInv
<1>2. PacketInv /\ [DpiNext]_dpiVars => PacketInv'
  BY DEF PacketInv, DpiNext, AddPort, RemovePort, dpiVars, WholeLength
<1>3. QED
  BY <1>1, <1>2, PTL DEF DpiSpec

\* The firewall passes a packet if and only if it is a well-formed first
\* fragment that is ICMP or has an allowed port of its own, for all packets,
\* cuts and lists of ports (inspector.go l.79-120).
THEOREM FirewallIsExact == DpiSpec => []FirewallReadsThePorts
<1>1. PacketInv => FirewallReadsThePorts
  BY FirewallDecides DEF PacketInv, FirewallReadsThePorts
<1>2. QED
  BY <1>1, PacketInvariance, PTL

\* A packet counts as LAN traffic if and only if its destination is private or
\* the broadcast address, for all packets and cuts (inspector.go l.48-57).
THEOREM LanIsExact == DpiSpec => []LanByDestination
<1>1. PacketInv => LanByDestination
  BY LanDecides DEF PacketInv, LanByDestination
<1>2. QED
  BY <1>1, PacketInvariance, PTL

\* No packet a node sends is dropped or cut by a node with the same ports
\* (router.go l.41-59, 80-89).
THEOREM SentPassesEverywhere == DpiSpec => []SentIsAccepted
<1>1. PacketInv => SentIsAccepted
  BY SentPasses DEF PacketInv, SentIsAccepted
<1>2. QED
  BY <1>1, PacketInvariance, PTL
=============================================================================
