\* The queue on its own: one builder, two overlapping nextsong workers, feedback.
SPECIFICATION Spec
CONSTANTS
  s1 = s1
  s2 = s2
  Song <- MCSong
  Duration <- MCDuration
  Timestamp <- MCTimestamp
  Crossfade = 1
  SyncBuilder = {b1}
  Rebuilder = {}
  Fetcher = {f1, f2}
  FeedbackWorker = {w1}
  QueueLength = 2
  Merged = {}
  MaxBatch = 1
  KeepTime = 1
  QueueGap = 1
  StartTime = 1
  NoSong = NoSong
  LiveSong = LiveSong
  NoRow = NoRow
  NoFetcher = NoFetcher
  MaxRow = 3
  MaxTime = 2
  MaxOps = 0
  MaxManual = 1
  MaxReject = 0
  MaxReports = 1
INVARIANTS
  TypeOK
  DeliveredOnce
  OneEntryPerRow
PROPERTIES
  RowsMoveForward
