SPECIFICATION FairSpec
CONSTANTS
  p8 = p8  p24a = p24a  p24b = p24b  p32 = p32
  near = near  far = far  x = x  y = y
  Prefix <- MCPrefix
  Addr <- MCAddr
  Bits <- MCBits
  Covers <- MCCovers
  Route <- MCRoute
  Reader = {r1}
  Blank <- MCBlank  None = None  Nil = Nil  Torn = Torn
INVARIANTS TypeOK UniquePrefix Sorted IdleReadsWhole NeverReadsBlank
PROPERTIES ImplementsRouteTable WriterFinishes
