\* DJs and interrupting songs come between the tracks, reports overtake each
\* other, a merged playlist fills the queue.  The clock stands still: all the
\* rows that are sent are cued at the same second.
SPECIFICATION Spec
CONSTANTS
  s1 = s1
  s2 = s2
  Song <- MCSong
  Duration <- MCDuration
  Timestamp <- MCTimestamp
  Crossfade = 1
  SyncBuilder = {b1}
  Rebuilder = {}
  Fetcher = {f1}
  FeedbackWorker = {w1}
  QueueLength = 2
  Merged <- MCMerged
  MaxBatch = 2
  KeepTime = 1
  QueueGap = 1
  StartTime = 1
  NoSong = NoSong
  LiveSong = LiveSong
  NoRow = NoRow
  NoFetcher = NoFetcher
  MaxRow = 2
  MaxTime = 1
  MaxOps = 2
  MaxManual = 1
  MaxReject = 0
  MaxReports = 2
INVARIANTS
  OneEntryPerRow
