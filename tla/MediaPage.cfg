\* The media page: the user does three things, two things go wrong.
SPECIFICATION FairSpec
CONSTANTS
  f1 = f1
  f2 = f2
  Files = {f1, f2}
  root = root
  sub = sub
  Dirs = {root, sub}
  FirstDir = root
  term = term
  NoFilter = NoFilter
  Filters = {NoFilter, term}
  Absent = Absent
  Nothing = Nothing
  MaxEdits = 3
  MaxUser = 3
  MaxTrouble = 2
CHECK_DEADLOCK FALSE
INVARIANTS
  TypeOK
  IdleShowsView
  RelistShowsChanges
  DeletesWhatWasAsked
  RecordsKeepTheirData
PROPERTIES
  TableSettles
  ModalSettles
