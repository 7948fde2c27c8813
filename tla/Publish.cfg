SPECIFICATION FairSpec
CONSTANTS
  Procs = {p1, p2}
  MaxRequests = 3
  MaxTroubles = 1
INVARIANTS
  ChargesTracked
PROPERTIES
  UploadsSettle
CHECK_DEADLOCK FALSE
