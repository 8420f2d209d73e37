SPECIFICATION FairSpec
CONSTANTS
  Peer = {"p1", "p2"}
  Family = {"v4", "v6"}
  MaxIP = 2
  BgpPort = 179
  None = None
  Rule <- MCRule
  MaxAdds = 2
  Window = 1
  MaxSent = 2
INVARIANTS TypeOK PeerIdentity StopClosesAll PortsOfRules LastWordsHeard
PROPERTY GoroutinesEnd
CHECK_DEADLOCK FALSE
