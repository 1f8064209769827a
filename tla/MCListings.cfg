SPECIFICATION LiveSpec
CHECK_DEADLOCK FALSE
CONSTANTS
  Editions <- MCEditions
  Advertising = {1}
  Pollers = {p1, p2}
  DailyCap = 2
  MaxEvents = 2
  Worker = w
  Others = {b1}
  NoPost = NoPost
  NoPacket = NoPacket
  NoSnapshot = NoSnapshot
  NoDestination = NoDestination
  Owner = Owner
INVARIANTS
  PacketIsCurrent
  ShownAsVerified
  ContentIsAssessed
  OwnerDestinationIsReviewed
PROPERTIES
  PacketIsRebuilt
