SPECIFICATION Spec
CONSTANTS
  Never = Never
  NoRef = NoRef
  NoLot = NoLot
  Procs = {p1, p2}
  Charges = {c1}
  Topups = {t1}
  MaxBalance = 5
  Price = 1
  DailyCap = 1
  PackUnits = 2
  PackDays = 2
  FreeUnits = 3
  MonthDays = 1
  AdminUnits = 1
  AdminDays = 1
  MaxDay = 1
  MaxOps = 3
  MaxCrashes = 1
SYMMETRY Symmetry
INVARIANTS
  TypeOK
  LotsNeverOverfilled
  LedgerExplainsBalance
  RefundWithinCharge
  PackCreditedOnce
  FreeOncePerMonth
  CapOvershootBounded
  LockstepUntilExpiry
PROPERTIES
  FreeTopsUp
  EarliestExpiryFirst
  ImplementsAccount
