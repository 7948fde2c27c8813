SPECIFICATION FairTopupSpec
CONSTANTS
  Never = Never
  NoRef = NoRef
  NoLot = NoLot
  Procs = {p1, p2}
  Charges = {}
  tc = tc
  tl = tl
  Topups = {tc, tl}
  Provider <- ProviderMC
  RawUnits = 1
  RewardUnits = 1
  MaxBalance = 4
  Price = 1
  DailyCap = 1
  PackUnits = 2
  PackDays = 2
  FreeUnits = 3
  MonthDays = 1
  AdminUnits = 1
  AdminDays = 1
  MaxDay = 0
  MaxOps = 2
  MaxCrashes = 1
INVARIANTS
  TopupTypeOK
  CreditIsPaidFor
  TriggerCreditsOnce
  CompletedIsMinted
  RewardClosesInvite
PROPERTIES
  SettledRowKept
  PaidIsSettled
  ImplementsAccount
CHECK_DEADLOCK FALSE
