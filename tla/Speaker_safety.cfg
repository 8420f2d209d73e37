SPECIFICATION FairSpec
CONSTANTS
  net = net  pe = pe  own = own  bad = bad  node = node
  a1 = a1  a2 = a2  hop = hop  peAddr = peAddr  id = id
  Prefix <- MCPrefix
  Addr <- MCAddr
  Bits <- MCBits
  Covers <- MCCovers
  Label <- MCLabel
  RouterID = id
  Learned <- MCLearned
  LocalPaths <- MCLocalPaths
  Static <- MCStatic
  FilterDefined = TRUE
  Allowed <- MCAllowed
  NPeers = 2
  Direct <- MCDirect
  MaxQueue = 2
  None = None
CHECK_DEADLOCK FALSE
INVARIANTS TypeOK NoGhostRoutes SoleSourceConverges LabelsMatchExports FailedStartInstallsNothing FilterRestricts
PROPERTY RoutesFollowRib
