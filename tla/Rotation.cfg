\* Playlists of two and three songs in a window of three time units;
\* the queue is built two songs ahead, operators interfere once.
SPECIFICATION Spec
CONSTANTS
  m1 = m1
  m2 = m2
  m3 = m3
  Media = {m1, m2, m3}
  Similar <- MCSimilar
  Modes <- MCModes
  NoSong = NoSong
  Other = Other
  QueueLength = 2
  WinStart = 2
  WinEnd = 4
  TimeRange = 2
  MaxTime = 5
  MaxOps = 1
SYMMETRY MCSymmetry
INVARIANTS
  TypeOK
  LoopsOnce
  NoneIsLost
PROPERTIES
  OrderIsFollowed
