SPECIFICATION Spec
CONSTANTS
  Never = Never
  NoRef = NoRef
  NoLot = NoLot
  Procs = {p1}
  Charges = {c1}
  Topups = {}
  MaxBalance = 5
  Price = 1
  DailyCap = 1
  PackUnits = 2
  PackDays = 1
  FreeUnits = 3
  MonthDays = 1
  AdminUnits = 1
  AdminDays = 1
  MaxDay = 1
  MaxOps = 3
  MaxCrashes = 0
SYMMETRY Symmetry
INVARIANTS
  SettledLockstep
