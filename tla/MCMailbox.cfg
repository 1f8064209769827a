SPECIFICATION LiveSpec
CHECK_DEADLOCK FALSE
CONSTANTS
  Messages = {1, 2, 3}
  work = work
  home = home
  Kind <- MCKind
  Home <- MCHome
  Boxes = {work, home}
  Pollers = {p1, p2}
  Lookback = 0
  Overlap = 1
  MaxTime = 1
  MaxConnects = 2
  MaxFaults = 1
  NoBox = NoBox
  NoCursor = NoCursor
  NoPage = NoPage
  Never = Never
INVARIANTS
  PassedIsRecorded
  AppliedOnce
PROPERTIES
  ReachedIsRecorded
