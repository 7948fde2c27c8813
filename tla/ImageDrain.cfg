SPECIFICATION DrainFairSpec
CONSTANTS
  images = images
  background = background
  thumbnail = thumbnail
  Workers = {w1, w2}
  Callers = {c1, c2}
  Kinds = {images}
  Deduped = {images}
  Priority <- MCPriority
  Serves <- MCServes
  MaxAttempts = 2
  NoWorker = NoWorker
  NoKind = NoKind
  MaxJobs = 2
  MaxOverruns = 0
  MaxHangs = 1
  MaxCrashes = 1
  Images = {background, thumbnail}
  Source <- MCSource
  NoImage = NoImage
  Drain = images
  MaxImageTries = 3
  MaxResets = 1
PROPERTIES
  EveryImageEnds
CHECK_DEADLOCK FALSE
