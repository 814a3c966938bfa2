\* The settings of a new playlist (shuffled, duplicates avoided) with a schedule
\* that loops once; nobody interferes.
SPECIFICATION Spec
CONSTANTS
  m1 = m1
  m2 = m2
  m3 = m3
  Media = {m1, m2, m3}
  Similar <- MCSimilar
  Modes <- MCNewPlaylist
  NoSong = NoSong
  Other = Other
  QueueLength = 3
  WinStart = 3
  WinEnd = 5
  TimeRange = 3
  MaxTime = 6
  MaxOps = 0
INVARIANT PlaysOnce
