SPECIFICATION MSpec
CONSTANTS
  t1 = t1
  t2 = t2
  k3 = k3
  ann = ann
  bob = bob
  o1 = o1
  o2 = o2
  book = book
  work = work
  volume = volume
  NULL = NULL
  Tabs = {t1, t2}
  RowNos = {1, 2}
  TTL = 1
  MaxTime = 1
  MaxVersion = 4
  Users = {ann, bob}
  Operations = {o1, o2}
  Records = {book, work, volume}
  KindOf <- KindsOfRecords
  Calls = {t1, t2, k3}
  MaxAttempts = 2
  MaxCopies = 2
SYMMETRY Symmetry
INVARIANTS
  EditionOnCanonicalWork
  OneAddOneAnswer
PROPERTIES
  ImportsWhatWasReviewed
  DraftsEndWithTheirRows
CHECK_DEADLOCK FALSE
