SPECIFICATION FairSpec
CONSTANTS
  inline = inline
  queued = queued
  user = user
  system = system
  Jobs = {inline, queued, f1, f2}
  Queued = {queued}
  Crowd = {f1, f2}
  Owner <- OwnerMC
  UserCap <- UserCapMC
  Accounts = {a1, a2}
  NoAccount = NoAccount
  MaxSlots = 2
  MaxQueue = 1
  DeferLimit = 1
  MaxTroubles = 1
INVARIANTS
  CountsMatchWorkers
  NoStrandedWaiter
  SettlementMatchesRow
  OneSongUnlessLost
PROPERTIES
  EveryJobEnds
CHECK_DEADLOCK FALSE
