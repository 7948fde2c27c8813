SPECIFICATION WebSpec
CONSTANTS
  Workers = {w1, w2}
  Callers = {}
  Kinds = {s1}
  Deduped = {}
  Priority <- MCPriority
  Serves <- MCServes
  MaxAttempts = 2
  NoWorker = NoWorker
  NoKind = NoKind
  MaxJobs = 1
  MaxOverruns = 0
  MaxHangs = 0
  MaxCrashes = 0
  Hooks = {h1}
  HasPack = FALSE
  NoSong = NoSong
  MaxLost = 0
  MaxExpiries = 0
SYMMETRY Symmetry
INVARIANTS
  FailureRefunded
CHECK_DEADLOCK FALSE
