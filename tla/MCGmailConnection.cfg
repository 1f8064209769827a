SPECIFICATION LiveSpec
CHECK_DEADLOCK FALSE
CONSTANTS
  Flows = {f1, f2}
  Sessions = {s1, s2}
  Callbacks = {k1, k2}
  Callers = {c1, c2}
  Nonces = {n1, n2, n3}
  NoFlow = NoFlow
  NoSession = NoSession
  NoSecret = NoSecret
INVARIANTS
  MailboxMatchesSecret
  NewestFlowIsAwaited
PROPERTIES
  NewCredentialsAreAuthorized
  ErrorHeals
