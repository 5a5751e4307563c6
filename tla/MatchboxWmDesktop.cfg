SPECIFICATION MCSpec
CONSTANTS
  a1 = a1
  a2 = a2
  d1 = d1
  d2 = d2
  d3 = d3
  d4 = d4
  t = t
  p = p
  None = None
  Unmanaged = Unmanaged
  Clients = {a1,a2,t,d1}
  Casts = {{a1,a2,t,d1}}
  Type <- MCType
  Group <- MCAppGroup
  Modal = {d1}
  Urgent = {}
  NoInput = {}
  StartIconic = {a2}
  StartQuiet = {a2}
  Hints <- MCLeader
  MaxModals = 1
  MaxCalls = 20
  Retarget = {}
  Restate = {}
INVARIANTS ForegroundInv
PROPERTIES BackToDesktop FocusKept
CHECK_DEADLOCK FALSE
