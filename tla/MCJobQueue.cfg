SPECIFICATION LiveSpec
CONSTANTS
  Jobs = {poll, mailbox}
  Periodic = {mailbox}
  Workers = {w1, w2}
  NoJob = NoJob
  NoWorker = NoWorker
  Limit = 3
  MaxRevision = 3
  MaxCrashes = 2
INVARIANTS
  NewestInputKept
  DoneIsCurrent
PROPERTIES
  LateAnswerIsIgnored
  JobsSettle
