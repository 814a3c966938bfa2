\* One DJ with a page and one with a source client, two connections in all, one
\* failure.
SPECIFICATION FairSpec
CONSTANTS
  d1 = d1
  d2 = d2
  Djs = {d1, d2}
  Pages = {d1}
  NoDj = NoDj
  MaxConnections = 2
  MaxTrouble = 1
CHECK_DEADLOCK FALSE
INVARIANTS
  TypeOK
  StationIsRight
  SessionOfItsDj
  ShownIsConnected
  OpenIsShown
PROPERTIES
  DeactivatesTheLive
  PageLearns
