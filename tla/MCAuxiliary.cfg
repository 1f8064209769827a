SPECIFICATION LiveSpec
CHECK_DEADLOCK FALSE
CONSTANTS
  Applications = {a1}
  Notices = {n1, n2, b}
  Bodiless = {b}
  Workers = {w1, w2}
  NoKey = NoKey
  MaxCrashes = 1
  Overrun = TRUE
INVARIANTS
  OneRequestPerKey
  RecordedResultIsTrue
  UncertainIsShown
PROPERTIES
  ImplementsEffects
  EffectSettles
  NoticesAreSentInTurn
