SPECIFICATION LiveSpec
CHECK_DEADLOCK FALSE
CONSTANTS
  Facts = {f1}
  Values = {v1, v2}
  FirstValue = v1
  Selections = {{f1}}
  Answers = {a1}
  Accounts = {g1, g2}
  FirstAccount = g1
  NoAccount = NoAccount
  Worker = w
  Others = {b1}
  MaxEdits = 2
INVARIANTS
  ValidatedIsCurrent
  QueuedIsCurrent
PROPERTIES
  ClearedIsConfirmed
  ApprovedIsDispatched
