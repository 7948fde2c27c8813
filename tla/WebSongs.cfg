SPECIFICATION WebSpec
CONSTANTS
  Workers = {w1, w2}
  Callers = {}
  Kinds = {s1}
  Deduped = {}
  Priority <- MCPriority
  Serves <- MCServes
  MaxAttempts = 2
  NoWorker = NoWorker
  NoKind = NoKind
  MaxJobs = 1
  MaxOverruns = 1
  MaxHangs = 0
  MaxCrashes = 1
  Hooks = {h1}
  HasPack = FALSE
  NoSong = NoSong
  MaxLost = 1
  MaxExpiries = 0
CONSTRAINT FewTroubles
SYMMETRY Symmetry
INVARIANTS
  WebTypeOK
  OneGenerationUnlessLost
  FailedJobRefunded
  OutcomeIsGenerated
  OneSubmitAtATime
PROPERTIES
  SuccessStays
CHECK_DEADLOCK FALSE
