SPECIFICATION LvSpec
CONSTANTS
  ann = ann
  bob = bob
  eve = eve
  mail = mail
  reset = reset
  t1 = t1
  t2 = t2
  s1 = s1
  k1 = k1
  k2 = k2
  NULL = NULL
  Requests = {ann, mail, reset}
  KindOf <- Kind
  EmailOf <- OneAddress
  Budget = 3
INVARIANTS
  CleanMeansComplete
PROPERTIES
  ShutsDownGracefully
  ShutdownEnds
  ConfirmationsEnd
  RequestsEnd
CHECK_DEADLOCK FALSE
