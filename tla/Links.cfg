SPECIFICATION FairSpec
CONSTANTS
  Writer = {"r1"}
  Cap = 1
  SockCap = 1
  MaxPackets = 4
  NoPacket = NoPacket
  Name = {"l1", "l2"}
  Prefix = {"10.0.0.1/24", "10.0.0.2/32", "fd00::1/64"}
  Supported = {"10.0.0.1/24", "10.0.0.2/32"}
  Host = {"10.0.0.1", "10.0.0.2", "fd00::1"}
  Covers <- MCCovers
  PeerPrefix = "10.9.0.0/16"
  MaxNIC = 3
  None = None
INVARIANTS TypeOK ClosedOnce TablesAgree
PROPERTIES ImplementsTransport NoErrorLoop LocalPacketsArrive CallsReturn LoopsEnd
CHECK_DEADLOCK FALSE
