------------------------------- MODULE MCDpi --------------------------------
(***************************************************************************)
(* Packets at the boundaries: headers with and without options and with an *)
(* impossible length, fragments, three protocols and one more, addresses   *)
(* around the private ranges.  The filler spells an allowed port.          *)
(***************************************************************************)
EXTENDS Dpi

Web == 80
Filler == 16
FillerPort == 16 * 256 + 16

Base == [version |-> 4, ihl |-> 5, flags |-> 0, offset |-> 0, proto |-> TCP,
         src |-> << 10, 8, 0, 2 >>, dst |-> << 10, 8, 0, 3 >>,
         sport |-> Web, dport |-> Web, filler |-> Filler]

PortPackets ==
  {[Base EXCEPT !.version = v, !.ihl = ihl, !.flags = fl, !.offset = off,
                !.proto = pr, !.sport = s, !.dport = d] :
     v \in {0, 4, 6}, ihl \in {0, 2, 4, 5, 6, 15}, fl \in {0, 1, 2}, off \in {0, 1, 256},
     pr \in {ICMP, TCP, UDP, 47}, s \in {Web, 443}, d \in {Web, 443}}

Addresses ==
  {<< x, y, 0, z >> : x \in {9, 10, 172, 192, 255}, y \in {15, 16, 31, 32, 168, 255}, z \in {1}}
    \cup {<< 255, 255, 255, 255 >>, << 255, 255, 255, 254 >>}

LanPackets ==
  {[Base EXCEPT !.version = v, !.src = s, !.dst = d] :
     v \in {4, 6}, s \in {<< 10, 8, 0, 2 >>, << 8, 8, 8, 8 >>}, d \in Addresses}

AllPackets == {p \in PortPackets \cup LanPackets : WholeLength(p) >= 20}
AllLengths == {0, 1, 4, 5, 19, 20, 23, 24, 27, 28, 60, 63, 64}
AllPorts == {Web, FillerPort}
=============================================================================
