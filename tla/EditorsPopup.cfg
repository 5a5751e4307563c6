SPECIFICATION MCSpec
CONSTANTS
  Parts = {"calendar"}
  None = None
  Empty = Empty
  Minus = Minus
  Junk = Junk
  HalfDay = 2
  Minutes = 2
  MaxHours = 2
  NoDigits = NoDigits
  Dash = Dash
  Letters = Letters
  Digits = {0, 1, 4}
  Times = {0, 2, 3, 8}
  Months = 3
  LongDays = 6
  Years = {1, 2}
  Numbers = {0, 5, 7}
  WeekDays = 2
  Weeks = 4
  CalYears = {1, 2}
  Todays <- MCLateTodays
CHECK_DEADLOCK FALSE
INVARIANT PopupShowsDate
