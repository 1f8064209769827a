SPECIFICATION Spec
CONSTANTS
  Apps = {app1}
  Attempts = {a1, a2}
  Workers = {w1, w2}
  Reconcilers = {r1}
  Routes = {"email", "browser"}
  NoApp = NoApp
  NoAttempt = NoAttempt
  DailyCap = 2
  MaxPackets = 2
  MaxDay = 0
  MaxCrashes = 1
  Overrun = TRUE
SYMMETRY Symmetric
INVARIANTS
  ShownStatusIsBacked
  NoUnapprovedDuplicate
  QueuedIsUnattempted
  WaivedCannotPass
PROPERTIES
  EvidenceIsKept
  ImplementsEffects
