SPECIFICATION Spec
CONSTANTS
  A = A  B = B  C = C  D = D  E = E
  Node = {A, B, C, D, E}
  Addr <- MCAddr
  Transport = {"ab", "ba", "udp", "udp2"}
  Prefix <- MCPrefix
  Bits <- MCBits
  Covers <- MCCovers
  Label <- MCLabel
  Routes <- MCRoutes
  Labels <- MCLabels
  Direct <- MCDirect
  Local <- MCLocal
  Nic <- MCNic
  NICs <- MCNICs
  Wire <- MCWire
  Dist <- MCDist
  Way <- MCWay
  Byte = 8
  NoEntry = NoEntry
CHECK_DEADLOCK FALSE
INVARIANTS TypeOK HopsBounded DeliveredExactly
PROPERTY EveryPacketEnds
