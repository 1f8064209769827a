SPECIFICATION QuotaSpec
CONSTANTS
  Apps = {app1, app2}
  Attempts = {a1, a2, a3}
  Workers = {w1, w2}
  Reconcilers = {r1}
  Routes = {"email"}
  NoApp = NoApp
  NoAttempt = NoAttempt
  DailyCap = 2
  MaxPackets = 1
  MaxDay = 1
  MaxCrashes = 0
  Overrun = TRUE
SYMMETRY SymmetricApps
INVARIANTS
  QuotaRespected
