\* One track that two listeners ask for (one of them logged in) and an operator
\* queues, two requests, two runs of the task, one failure; one tick is enough for
\* the delay, two for each window.
SPECIFICATION FairSpec
CONSTANTS
  t1 = t1
  c1 = c1
  c2 = c2
  r1 = r1
  r2 = r2
  Tracks = {t1}
  Clients = {c1, c2}
  Members = {c2}
  Operator = Operator
  Runs = {r1, r2}
  Nobody = Nobody
  Delay = 0
  PendingWindow = 1
  RecentWindow = 1
  FloodWindow = 1
  MaxAge = 2
  MaxRequests = 2
  MaxTrouble = 1
INVARIANTS
  TypeOK
  PlayedWasPlaced
  PlacedOnce
  OneRowPerRequest
  LockedRunsAlone
  OnePendingPerTrack
PROPERTIES
  RequestSettles
