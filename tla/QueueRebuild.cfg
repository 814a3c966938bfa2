\* The Rebuild Queue button runs a second builder beside the sync loop's.
SPECIFICATION Spec
CONSTANTS
  s1 = s1
  s2 = s2
  Song <- MCSong
  Duration <- MCDuration
  Timestamp <- MCTimestamp
  Crossfade = 1
  SyncBuilder = {b1}
  Rebuilder = {b2}
  Fetcher = {}
  FeedbackWorker = {}
  QueueLength = 2
  Merged = {}
  MaxBatch = 1
  KeepTime = 1
  QueueGap = 1
  StartTime = 1
  NoSong = NoSong
  LiveSong = LiveSong
  NoRow = NoRow
  NoFetcher = NoFetcher
  MaxRow = 5
  MaxTime = 1
  MaxOps = 2
  MaxManual = 1
  MaxReject = 0
  MaxReports = 0
INVARIANTS
  PickedBound
PROPERTIES
  RetimingKeepsOrder
