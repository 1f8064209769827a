SPECIFICATION LiveSpec
CONSTANTS
  Apps = {app1}
  Attempts = {a1, a2}
  Workers = {w1}
  Reconcilers = {r1}
  Routes = {"email"}
  NoApp = NoApp
  NoAttempt = NoAttempt
  DailyCap = 2
  MaxPackets = 2
  MaxDay = 0
  MaxCrashes = 1
  Overrun = FALSE
PROPERTIES
  DispatchSettles
  UncertaintyResolves
  HandledLeavesQueue
