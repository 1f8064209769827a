SPECIFICATION LiveSpec
CHECK_DEADLOCK FALSE
CONSTANTS
  Applications = {a1}
  Notices = {n1, b}
  Bodiless = {b}
  Workers = {w1}
  NoKey = NoKey
  MaxCrashes = 0
  Overrun = FALSE
PROPERTIES
  OwnerIsTold
