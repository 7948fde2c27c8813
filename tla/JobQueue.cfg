SPECIFICATION FairSpec
CONSTANTS
  song = song
  images = images
  Workers = {w1, w2}
  Callers = {c1, c2}
  Kinds = {song, images}
  Deduped = {images}
  Priority <- MCPriority
  Serves <- MCServes
  MaxAttempts = 2
  NoWorker = NoWorker
  NoKind = NoKind
  MaxJobs = 2
  MaxOverruns = 2
  MaxHangs = 1
  MaxCrashes = 1
INVARIANTS
  TypeOK
  AttemptsBounded
  SoleHandler
  TwinsOnlyByRace
PROPERTIES
  EveryJobSettles
  FinalUnlessReclaimed
CHECK_DEADLOCK FALSE
