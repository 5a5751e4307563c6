SPECIFICATION MCSpec
CONSTANTS
  a1 = a1
  a2 = a2
  d1 = d1
  d2 = d2
  d3 = d3
  d4 = d4
  t = t
  p = p
  None = None
  Unmanaged = Unmanaged
  Clients = {a1,p,d1,d2,d3,d4}
  Casts = {{a1,p,d1,d2}, {a1,d1,d3,d4}}
  Type <- MCType
  Group <- MCGroups
  Modal = {}
  Urgent = {d4}
  NoInput = {p}
  StartIconic = {}
  StartQuiet = {}
  Hints <- MCChain
  MaxModals = 1
  MaxCalls = 20
  Retarget = {d1}
  Restate = {a1,d2}
INVARIANTS PanelsInv RootDialogsOnTop
CHECK_DEADLOCK FALSE
