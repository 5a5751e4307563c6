SPECIFICATION MCSpec
CONSTANTS
  Parts = {"theme"}
  None = None
  w1 = w1
  w2 = w2
  tb1 = tb1
  tb2 = tb2
  Windows = {w1, w2}
  Toolbars = {tb1, tb2}
  Dialog = Dialog
  Foreign = Foreign
  Dead = Dead
  MaxNotifies = 2
  Owners = {w1, Global}
  Global = Global
  Banners = {1, 2}
  Period = 2
  MaxInt = 3
  Empty = Empty
  Minus = Minus
  Junk = Junk
  Typed <- MCTyped
  Base = 2
  RangeTexts <- MCRangeTexts
  JunkNumber = 2
  RangeValues <- MCRangeValues
  Searches = {s1, s2, s3}
  MaxHistory = 2
  b1 = b1
  b2 = b2
  b3 = b3
  Crumbs = {b1, b2, b3}
  Natural <- MCNatural
  MaxWidth = 7
  Local = {plain}
  Remote = {card}
  Looks = {1, 2}
  CacheNames = {1, 2, 3}
  MaxCalls = 2
  MaxEfforts = 3
  Processes = {p1, p2}
  Lengths <- MCLengths
  Header = 1
  BufSize = 5
  MaxUnread = 5
  MaxSent = 3
  Files = {f1, f2}
  Images = {i1, i2}
  Styles = {s1, s2}
  Slots = {base, overlay}
  RefModulus = 4
  MaxList = 3
  ShadowAfterImage = TRUE
  Clients = {c1, c2, c3, c4, c5}
CHECK_DEADLOCK FALSE
INVARIANT NoUseAfterFree
