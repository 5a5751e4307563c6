SPECIFICATION MCSpec
CONSTANTS
  Parts = {"windows", "notifications", "notes", "menu", "applets", "screen", "plugins", "popup", "list"}
  None = None
  mail = mail
  web = web
  a1 = a1
  a2 = a2
  b1 = b1
  Apps = {mail, web}
  Xids = {a1, a2, b1}
  Objs = {1, 2, 3, 4, 5, 6}
  AppOf <- MCAppOf
  KeyOf <- MCKeyOf
  Killable = {mail}
  NButtons = 1
  MaxEvents = 2
  t1 = t1
  t2 = t2
  MaxId = 2
  MaxSame = 2
  MaxTimers = 2
  Bodies = {t1, t2}
  HintChanges = FALSE
  Notes = {1, 2, 3, 4, 5}
  MaxNotice = 2
  AppEntries = {mail, web}
  ItemsLimit = 2
  SwitcherSlots = 1
  MaxDetached = 1
  clock = clock
  news = news
  radio = radio
  Applets = {clock, news, radio}
  Natural <- MCNatural
  Width = 3
  Height = 2
  Padding = 0
  Spots <- MCSpots
  Lengths <- MCLengths
  Torn = Torn
  MaxEfforts = 2
  ByName <- MCByName
  ConfLists <- MCConfLists
  Broken = {mail}
  Temporary = {radio}
  AppsMenu = news
  Contact = mail
  Browser = clock
  AppSwitcher = web
  MenuSwitcher = absent
  Fallback = Fallback
  MaxMonitored = 2
  NPanes = 2
  OthersGrab = FALSE
  MenuItems = {a1, a2, t1}
  Separators = {t1}
  ItemHeight = 2
  MaxHeight = 3
  ButtonsHeight = 1
  MaxStrays = 1
CHECK_DEADLOCK FALSE
INVARIANTS SwitcherInv ManagerInv NotesInv MenuInv HomeInv ContainerInv PopupInv PopupMenuInv
PROPERTIES HibernatedKept KeepsPromise PlacedFree
