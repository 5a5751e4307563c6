SPECIFICATION MCSpec
CONSTANTS
  a1 = a1
  a2 = a2
  d1 = d1
  d2 = d2
  d3 = d3
  d4 = d4
  t = t
  p = p
  None = None
  Unmanaged = Unmanaged
  Clients = {a1,a2,d1}
  Casts = {{a1,a2,d1}}
  Type <- MCType
  Group <- MCAppGroup
  Modal = {}
  Urgent = {}
  NoInput = {}
  StartIconic = {}
  StartQuiet = {}
  Hints <- MCChain
  MaxModals = 1
  MaxCalls = 20
  Retarget = {}
  Restate = {}
INVARIANT NothingDangles
CHECK_DEADLOCK FALSE
