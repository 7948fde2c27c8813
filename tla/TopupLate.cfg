SPECIFICATION FairTopupSpec
CONSTANTS
  Never = Never
  NoRef = NoRef
  NoLot = NoLot
  Procs = {p1}
  Charges = {}
  tc = tc
  tl = tl
  Topups = {tc}
  Provider <- ProviderMC
  RawUnits = 1
  RewardUnits = 1
  MaxBalance = 5
  Price = 1
  DailyCap = 1
  PackUnits = 2
  PackDays = 2
  FreeUnits = 3
  MonthDays = 1
  AdminUnits = 1
  AdminDays = 1
  MaxDay = 0
  MaxOps = 2
  MaxCrashes = 0
PROPERTY
  LatePaymentPromotes
CHECK_DEADLOCK FALSE
