SPECIFICATION SapwoodFairSpec
CONSTANTS
  Clients = {c1, c2}
  Files = {f1, f2}
  Ids = {i1, i2}
  NoId = NoId
  NoFile = NoFile
  Failed = Failed
  MaxOpens = 2
  MaxRefs = 4
  MaxQueue = 2
INVARIANTS SapwoodInv ServerInv
PROPERTIES SharesImages OpensAnswered UnusedFreed
