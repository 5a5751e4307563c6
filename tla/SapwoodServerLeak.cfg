SPECIFICATION ServerSpec
CONSTANTS
  Clients = {c1, c2}
  Files = {f1, f2}
  Ids = {i1, i2, i3}
  NoId = NoId
  MaxOpens = 2
  MaxRefs = 4
INVARIANT UnusedImagesReleased
