SPECIFICATION Spec
CONSTANTS
  Attempts = {a1, a2, a3}
  App = App
  NoApp = NoApp
  MaxRequests = 2
INVARIANTS
  HandoffIsUnsent
  AcceptedIsReceived
PROPERTIES
  ImplementsEffects
