\* Operators and cleanup change the table under a builder and a nextsong worker,
\* with songs refused by setNextSongs.
SPECIFICATION Spec
CONSTANTS
  s1 = s1
  s2 = s2
  Song <- MCSong
  Duration <- MCDuration
  Timestamp <- MCTimestamp
  Crossfade = 1
  SyncBuilder = {b1}
  Rebuilder = {}
  Fetcher = {f1}
  FeedbackWorker = {}
  QueueLength = 2
  Merged = {}
  MaxBatch = 1
  KeepTime = 1
  QueueGap = 1
  StartTime = 1
  NoSong = NoSong
  LiveSong = LiveSong
  NoRow = NoRow
  NoFetcher = NoFetcher
  MaxRow = 3
  MaxTime = 2
  MaxOps = 1
  MaxManual = 1
  MaxReject = 1
  MaxReports = 0
INVARIANTS
  PickedBound
