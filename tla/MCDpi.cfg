CONSTANTS
  Packets <- AllPackets
  Lengths <- AllLengths
  Ports <- AllPorts
SPECIFICATION DpiSpec
INVARIANTS
  FirewallReadsThePorts
  LanByDestination
  SentIsAccepted
